---- MODULE Spec2Model ----
(***************************************************************************)
(* Data Extraction API (rest_api_duckdb): the query payload validation of  *)
(* app/models/schemas.py, the DuckDB service of app/services/database.py   *)
(* and the request handlers of app/api/query.py, as a state machine.       *)
(*                                                                         *)
(* Text values (payload strings, ids, ISO dates) are sequences of          *)
(* one-character strings, so that parsing and formatting are computed on   *)
(* the characters, as the code computes them.                              *)
(***************************************************************************)
EXTENDS Integers, Sequences, FiniteSets, TLC

\* ------------------------------------------------------------------------
\* Characters and text
\* ------------------------------------------------------------------------

Digits == {"0", "1", "2", "3", "4", "5", "6", "7", "8", "9"}

DigitChars == <<"0", "1", "2", "3", "4", "5", "6", "7", "8", "9">>

IsDigit(c) == c \in Digits

\* int() of one decimal digit
DigitVal(c) == CHOOSE n \in 0..9 : DigitChars[n + 1] = c

\* the character of s at position i, or "" past the end (no character)
CharAt(s, i) == IF i >= 1 /\ i <= Len(s) THEN s[i] ELSE ""

\* Python's str(n) for an int n: optional '-' then the decimal digits,
\* most significant first, no leading zero
RECURSIVE NatToStr(_)
NatToStr(n) ==
    IF n < 10 THEN <<DigitChars[n + 1]>>
    ELSE NatToStr(n \div 10) \o <<DigitChars[(n % 10) + 1]>>

IntToStr(n) == IF n < 0 THEN <<"-">> \o NatToStr(0 - n) ELSE NatToStr(n)

\* zero-padded decimal of width w (the %04d / %02d of date.isoformat)
RECURSIVE ZeroPad(_, _)
ZeroPad(s, w) == IF Len(s) >= w THEN s ELSE ZeroPad(<<"0">> \o s, w)

\* lexicographic order on text (Python's str comparison on ASCII digits
\* and punctuation of the ISO forms)
CharRank(c) ==
    IF c = " " THEN 0
    ELSE IF c = "-" THEN 1
    ELSE IF c = "/" THEN 2
    ELSE IF IsDigit(c) THEN 3 + DigitVal(c)
    ELSE IF c = ":" THEN 13
    ELSE IF c = "T" THEN 14
    ELSE 15

RECURSIVE StrLE(_, _)
StrLE(a, b) ==
    IF a = <<>> THEN TRUE
    ELSE IF b = <<>> THEN FALSE
    ELSE IF a[1] = b[1] THEN StrLE(Tail(a), Tail(b))
    ELSE CharRank(a[1]) < CharRank(b[1])

\* ------------------------------------------------------------------------
\* Calendar dates (datetime.date) and datetime.strptime(v, "%Y/%m/%d")
\* ------------------------------------------------------------------------

IsLeap(y) == (y % 4 = 0) /\ ((y % 100 # 0) \/ (y % 400 = 0))

DaysInMonth(y, m) ==
    IF m = 2 THEN (IF IsLeap(y) THEN 29 ELSE 28)
    ELSE IF m \in {4, 6, 9, 11} THEN 30
    ELSE 31

MkDate(y, m, d) == [y |-> y, m |-> m, d |-> d]

\* date.__le__ / __lt__ : order of (year, month, day)
DateLT(a, b) ==
    \/ a.y < b.y
    \/ a.y = b.y /\ a.m < b.m
    \/ a.y = b.y /\ a.m = b.m /\ a.d < b.d

DateLE(a, b) == a = b \/ DateLT(a, b)

\* date.isoformat(): YYYY-MM-DD
IsoFormat(dt) ==
    ZeroPad(NatToStr(dt.y), 4) \o <<"-">> \o ZeroPad(NatToStr(dt.m), 2)
        \o <<"-">> \o ZeroPad(NatToStr(dt.d), 2)

\* %Y : (?P<Y>\d\d\d\d) at position i; the set of lengths matched (0 or 1 el.)
MatchY(s, i) ==
    IF \A k \in 0..3 : IsDigit(CharAt(s, i + k)) THEN <<4>> ELSE <<>>

\* %m : (?P<m>1[0-2]|0[1-9]|[1-9]) at position i: the lengths of the
\* alternatives that match, in the order the regex tries them
MatchM(s, i) ==
    (IF CharAt(s, i) = "1" /\ CharAt(s, i + 1) \in {"0", "1", "2"}
        THEN <<2>> ELSE <<>>)
    \o (IF CharAt(s, i) = "0" /\ CharAt(s, i + 1) \in (Digits \ {"0"})
        THEN <<2>> ELSE <<>>)
    \o (IF CharAt(s, i) \in (Digits \ {"0"}) THEN <<1>> ELSE <<>>)

\* %d : (?P<d>3[0-1]|[1-2]\d|0[1-9]|[1-9]| [1-9]) at position i
MatchD(s, i) ==
    (IF CharAt(s, i) = "3" /\ CharAt(s, i + 1) \in {"0", "1"}
        THEN <<2>> ELSE <<>>)
    \o (IF CharAt(s, i) \in {"1", "2"} /\ IsDigit(CharAt(s, i + 1))
        THEN <<2>> ELSE <<>>)
    \o (IF CharAt(s, i) = "0" /\ CharAt(s, i + 1) \in (Digits \ {"0"})
        THEN <<2>> ELSE <<>>)
    \o (IF CharAt(s, i) \in (Digits \ {"0"}) THEN <<1>> ELSE <<>>)
    \o (IF CharAt(s, i) = " " /\ CharAt(s, i + 1) \in (Digits \ {"0"})
        THEN <<2>> ELSE <<>>)

\* int() of a matched group: decimal digits, surrounding blanks ignored
RECURSIVE GroupInt(_)
GroupInt(g) ==
    IF g = <<>> THEN 0
    ELSE IF g[Len(g)] = " " THEN GroupInt(SubSeq(g, 1, Len(g) - 1))
    ELSE IF g[1] = " " THEN GroupInt(Tail(g))
    ELSE 10 * GroupInt(SubSeq(g, 1, Len(g) - 1)) + DigitVal(g[Len(g)])

NoDate == [ok |-> FALSE]

\* The month alternatives (in regex order) after which "/" and a day match:
\* the regex engine backtracks over them and keeps the first.
MonthChoices(s) ==
    SelectSeq(MatchM(s, 6),
              LAMBDA k : CharAt(s, 6 + k) = "/" /\ MatchD(s, 7 + k) # <<>>)

\* datetime.strptime(s, "%Y/%m/%d").date(), or NoDate where it raises
\* ValueError: the regex of the format is matched at the start of s, text
\* left over after the match is an error, and the matched numbers must be a
\* date of the calendar (year >= 1, day within the month).
Strptime(s) ==
    IF MatchY(s, 1) = <<>> \/ CharAt(s, 5) # "/" \/ MonthChoices(s) = <<>>
    THEN NoDate
    ELSE LET ml == MonthChoices(s)[1]
             dl == MatchD(s, 7 + ml)[1]
             y  == GroupInt(SubSeq(s, 1, 4))
             m  == GroupInt(SubSeq(s, 6, 5 + ml))
             d  == GroupInt(SubSeq(s, 7 + ml, 6 + ml + dl))
         IN IF 6 + ml + dl # Len(s) THEN NoDate
            ELSE IF y < 1 \/ d > DaysInMonth(y, m) THEN NoDate
            ELSE [ok |-> TRUE, date |-> MkDate(y, m, d)]

\* ------------------------------------------------------------------------
\* Values: JSON values of a request body and the Python values of a
\* validated QueryPayload
\* ------------------------------------------------------------------------

Absent == [t |-> "absent"]                 \* the key is not in the body
None   == [t |-> "none"]                   \* JSON null / Python None
VStr(s) == [t |-> "str", v |-> s]
VInt(n) == [t |-> "int", v |-> n]
VList(s) == [t |-> "list", v |-> s]       \* a JSON array

IsNone(x) == x.t = "none"
IsStr(x)  == x.t = "str"
IsInt(x)  == x.t = "int"

T_None == <<"N", "o", "n", "e">>

\* Python's str(x) of a str, an int or None
PyStr(x) == IF IsInt(x) THEN IntToStr(x.v) ELSE IF IsNone(x) THEN T_None ELSE x.v

\* truthiness of an Optional[str]: None and '' are false
Truthy(x) == IsStr(x) /\ x.v # <<>>

Text_json    == <<"j", "s", "o", "n">>
Text_feature == <<"f", "e", "a", "t", "u", "r", "e">>

\* ------------------------------------------------------------------------
\* QueryPayload (app/models/schemas.py)
\* ------------------------------------------------------------------------

MsgDateFormat == "Value error, Date must be in yyyy/mm/dd format"
MsgDateRange  == "Value error, fromDate must be less than or equal to toDate"
MsgBadDates   == "Value error, Invalid date format"

\* a variant of the id field annotated Optional[str] in strict mode: an
\* integer is refused (the properties of integer ids must tell it apart)
Field_id_strOnly(x) ==
    IF x.t \in {"absent", "none"} THEN [ok |-> TRUE, v |-> None]
    ELSE IF x.t = "str" THEN [ok |-> TRUE, v |-> x]
    ELSE [ok |-> FALSE,
          errors |-> {[branch |-> "", type |-> "string_type",
                       msg |-> "Input should be a valid string"]}]

\* a variant of the id field that takes any JSON value as it is
Field_id_anyValue(x) ==
    IF x.t \in {"absent", "none"} THEN [ok |-> TRUE, v |-> None]
    ELSE [ok |-> TRUE, v |-> x]

\* id: Union[str, int, None] = Field(None): an omitted key takes the default
\* None, null is None, a string stays a string and an integer an integer;
\* another value fails both members of the union, with one error for each
\* (loc: id, str and id, int)
Field_id(x) ==
    IF x.t \in {"absent", "none"} THEN [ok |-> TRUE, v |-> None]
    ELSE IF x.t \in {"str", "int"} THEN [ok |-> TRUE, v |-> x]
    ELSE [ok |-> FALSE,
          errors |-> {[branch |-> "str", type |-> "string_type",
                       msg |-> "Input should be a valid string"],
                      [branch |-> "int", type |-> "int_type",
                       msg |-> "Input should be a valid integer"]}]

\* a variant of validate_date_format that only matches the pattern of the
\* format and does not build the date (no calendar check)
validate_date_format_shapeOnly(v) ==
    IF IsNone(v) THEN [ok |-> TRUE, v |-> v]
    ELSE IF ~IsStr(v) THEN [ok |-> FALSE, type |-> "value_error", msg |-> "Value error, Date must be a string"]
    ELSE IF /\ MatchY(v.v, 1) # <<>> /\ CharAt(v.v, 5) = "/"
            /\ MonthChoices(v.v) # <<>>
            /\ 6 + MonthChoices(v.v)[1] + MatchD(v.v, 7 + MonthChoices(v.v)[1])[1] = Len(v.v)
         THEN [ok |-> TRUE, v |-> v]
    ELSE [ok |-> FALSE, type |-> "value_error", msg |-> MsgDateFormat]

\* validate_date_format, the field validator of fromDate and toDate, run on
\* the value once it has passed the Union[str, None] annotation
validate_date_format(v) ==
    IF IsNone(v) THEN [ok |-> TRUE, v |-> v]
    ELSE IF ~IsStr(v) THEN [ok |-> FALSE, type |-> "value_error", msg |-> "Value error, Date must be a string"]
    ELSE IF Strptime(v.v).ok THEN [ok |-> TRUE, v |-> v]
    ELSE [ok |-> FALSE, type |-> "value_error", msg |-> MsgDateFormat]

\* fromDate / toDate: Union[str, None] = Field(None) with the field validator
Field_date(x) ==
    IF x.t = "absent" THEN [ok |-> TRUE, v |-> None]
    ELSE IF x.t \in {"none", "str"} THEN validate_date_format(x)
    ELSE [ok |-> FALSE, type |-> "string_type", msg |-> "Input should be a valid string"]

\* environment: Union[str, None] = Field(None), no validator
Field_environment(x) ==
    IF x.t \in {"absent", "none"} THEN [ok |-> TRUE, v |-> None]
    ELSE IF x.t = "str" THEN [ok |-> TRUE, v |-> x]
    ELSE [ok |-> FALSE, type |-> "string_type", msg |-> "Input should be a valid string"]

\* format: Literal["json", "feature"] = Field("json")
Field_format(x) ==
    IF x.t = "absent" THEN [ok |-> TRUE, v |-> VStr(Text_json)]
    ELSE IF x.t = "str" /\ x.v \in {Text_json, Text_feature} THEN [ok |-> TRUE, v |-> x]
    ELSE [ok |-> FALSE, type |-> "literal_error", msg |-> "Input should be 'json' or 'feature'"]

FieldNames == {"id", "fromDate", "toDate", "environment", "format"}

FieldResult(body, f) ==
    CASE f = "id"          -> Field_id(body.id)
      [] f = "fromDate"    -> Field_date(body.fromDate)
      [] f = "toDate"      -> Field_date(body.toDate)
      [] f = "environment" -> Field_environment(body.environment)
      [] f = "format"      -> Field_format(body.format)

\* a variant of validate_date_range that also refuses equal dates
validate_date_range_strict(p) ==
    IF IsNone(p.fromDate) \/ IsNone(p.toDate) THEN [ok |-> TRUE]
    ELSE LET from_date == Strptime(p.fromDate.v)
             to_date   == Strptime(p.toDate.v)
         IN IF ~from_date.ok \/ ~to_date.ok THEN [ok |-> FALSE, msg |-> MsgBadDates]
            ELSE IF DateLE(to_date.date, from_date.date)
                 THEN [ok |-> FALSE, msg |-> MsgDateRange]
            ELSE [ok |-> TRUE]

\* validate_date_range, the model validator (mode='after'): it runs on the
\* payload whose fields all validated. The ValueError of the range check is
\* raised inside the try block and re-raised by its handler; a ValueError
\* of strptime is replaced by 'Invalid date format'.
validate_date_range(p) ==
    IF IsNone(p.fromDate) \/ IsNone(p.toDate) THEN [ok |-> TRUE]
    ELSE LET from_date == Strptime(p.fromDate.v)
             to_date   == Strptime(p.toDate.v)
         IN IF ~from_date.ok \/ ~to_date.ok THEN [ok |-> FALSE, msg |-> MsgBadDates]
            ELSE IF DateLT(to_date.date, from_date.date)
                 THEN [ok |-> FALSE, msg |-> MsgDateRange]
            ELSE [ok |-> TRUE]

\* the errors of a field that failed: loc is the field, branch the member
\* of a union the error belongs to ("" when the field is no union)
FieldErrors(body, f) ==
    IF f = "id"
    THEN {[loc |-> f, branch |-> e.branch, type |-> e.type, msg |-> e.msg] :
            e \in FieldResult(body, f).errors}
    ELSE {[loc |-> f, branch |-> "", type |-> FieldResult(body, f).type,
           msg |-> FieldResult(body, f).msg]}

\* a request body that is no JSON object: text sent as application/json
\* that is no JSON, and a form sent as application/x-www-form-urlencoded
IsRawBody(body) == "raw" \in DOMAIN body

\* The validation of the body parameter payload: QueryPayload. A body sent
\* as JSON that does not decode is one error json_invalid located at the
\* position of the decoding error; a body of another content type is not
\* decoded and is no object to take fields from. For an object,
\* QueryPayload(**body): every field is validated and the errors of all
\* fields are collected (loc = the field); the model validator runs only
\* when no field failed, and its error has the empty loc "".
Validate(body) ==
    IF IsRawBody(body)
    THEN [ok |-> FALSE,
          errors |-> {IF body.content_type = "application/json"
                      THEN [loc |-> "0", branch |-> "", type |-> "json_invalid",
                            msg |-> "JSON decode error"]
                      ELSE [loc |-> "", branch |-> "", type |-> "model_attributes_type",
                            msg |-> "Input should be a valid dictionary or object to extract fields from"]}]
    ELSE
    LET bad == {f \in FieldNames : ~FieldResult(body, f).ok}
        p   == [f \in FieldNames |-> FieldResult(body, f).v]
    IN IF bad # {}
       THEN [ok |-> FALSE, errors |-> UNION {FieldErrors(body, f) : f \in bad}]
       ELSE IF ~validate_date_range(p).ok
       THEN [ok |-> FALSE,
             errors |-> {[loc |-> "", branch |-> "", type |-> "value_error",
                          msg |-> validate_date_range(p).msg]}]
       ELSE [ok |-> TRUE, payload |-> p]

\* QueryPayload.get_parsed_dates: a date for each truthy field, else None;
\* raises ValueError where strptime does
get_parsed_dates(p) ==
    LET f == IF Truthy(p.fromDate) THEN Strptime(p.fromDate.v) ELSE NoDate
        t == IF Truthy(p.toDate) THEN Strptime(p.toDate.v) ELSE NoDate
    IN [raised    |-> (Truthy(p.fromDate) /\ ~f.ok) \/ (Truthy(p.toDate) /\ ~t.ok),
        from_date |-> IF f.ok THEN [t |-> "date", v |-> f.date] ELSE None,
        to_date   |-> IF t.ok THEN [t |-> "date", v |-> t.date] ELSE None]

\* ------------------------------------------------------------------------
\* The events table and the engine's execution of the SELECT of query_events
\* ------------------------------------------------------------------------

\* a TIMESTAMP: a date and the seconds since its midnight
MkTimestamp(dt, sec) == [date |-> dt, sec |-> sec]

TimestampLT(a, b) ==
    DateLT(a.date, b.date) \/ (a.date = b.date /\ a.sec < b.sec)

\* datetime.isoformat(): YYYY-MM-DDTHH:MM:SS
IsoTimestamp(ts) ==
    IsoFormat(ts.date) \o <<"T">>
        \o ZeroPad(NatToStr(ts.sec \div 3600), 2) \o <<":">>
        \o ZeroPad(NatToStr((ts.sec \div 60) % 60), 2) \o <<":">>
        \o ZeroPad(NatToStr(ts.sec % 60), 2)

\* one row of events: id VARCHAR, event_date DATE, event_type VARCHAR,
\* description VARCHAR, value DOUBLE, environment VARCHAR, created_at TIMESTAMP
MkRow(id, event_date, event_type, description, value, environment, created_at) ==
    [id |-> id, event_date |-> event_date, event_type |-> event_type,
     description |-> description, value |-> value, environment |-> environment,
     created_at |-> created_at]

\* the SQL text "DROP TABLE events"
Text_DropTable ==
    <<"D", "R", "O", "P", " ", "T", "A", "B", "L", "E", " ",
      "e", "v", "e", "n", "t", "s">>

\* a condition of the WHERE clause: column, comparison and right-hand side;
\* the right-hand side is the placeholder ? of a bound parameter, or SQL
\* text written into the statement
Placeholder == [kind |-> "param"]
SqlText(s)  == [kind |-> "text", sql |-> s]

Cond(col, op, rhs) == [col |-> col, op |-> op, rhs |-> rhs]

\* the position of the first ' in s, or 0
RECURSIVE QuotePos(_, _)
QuotePos(s, i) ==
    IF i > Len(s) THEN 0 ELSE IF s[i] = "'" THEN i ELSE QuotePos(s, i + 1)

\* whether t occurs in s
HasInfix(s, t) ==
    \E i \in 1..(Len(s) + 1) :
        i + Len(t) - 1 <= Len(s) /\ SubSeq(s, i, i + Len(t) - 1) = t

\* The SQL lexer on the text of a quoted literal written into the statement
\* (the text after the opening quote): the literal ends at the first quote,
\* and what follows is read as SQL.
LiteralOf(s) == IF QuotePos(s, 1) = 0 THEN s ELSE SubSeq(s, 1, QuotePos(s, 1) - 1)
AfterLiteral(s) == IF QuotePos(s, 1) = 0 THEN <<>> ELSE SubSeq(s, QuotePos(s, 1) + 1, Len(s))

\* the number of placeholders among the first n conditions
RECURSIVE ParamsBefore(_, _)
ParamsBefore(where, n) ==
    IF n = 0 THEN 0
    ELSE ParamsBefore(where, n - 1) + (IF where[n].rhs.kind = "param" THEN 1 ELSE 0)

\* the value the i-th condition compares with: its bound parameter (the
\* parameters are bound to the placeholders in order), or the literal lexed
\* from its SQL text
CondValue(where, params, i) ==
    IF where[i].rhs.kind = "param" THEN params[ParamsBefore(where, i)]
    ELSE LiteralOf(where[i].rhs.sql)

\* SQL comparison of a column value with a value
Compare(col, op, a, b) ==
    IF col = "event_date"
    THEN (CASE op = ">=" -> DateLE(b, a)
            [] op = "<=" -> DateLE(a, b)
            [] op = ">"  -> DateLT(b, a)
            [] op = "<"  -> DateLT(a, b)
            [] op = "="  -> a = b)
    ELSE a = b

RowSatisfies(row, where, params) ==
    \A i \in 1..Len(where) :
        Compare(where[i].col, where[i].op, row[where[i].col], CondValue(where, params, i))

\* whether SQL text written into the statement carries a DROP TABLE events
\* after one of its literals
DropsTable(where) ==
    \E i \in 1..Len(where) :
        /\ where[i].rhs.kind = "text"
        /\ HasInfix(AfterLiteral(where[i].rhs.sql), Text_DropTable)

\* ORDER BY: row a sorts strictly before row b under the key list
ColLT(col, a, b) ==
    IF col = "event_date" THEN DateLT(a, b)
    ELSE IF col = "created_at" THEN TimestampLT(a, b)
    ELSE a # b /\ StrLE(a, b)

RECURSIVE RowLT(_, _, _)
RowLT(a, b, keys) ==
    IF keys = <<>> THEN FALSE
    ELSE \/ ColLT(keys[1], a[keys[1]], b[keys[1]])
         \/ a[keys[1]] = b[keys[1]] /\ RowLT(a, b, Tail(keys))

\* every order of the rows (given by their positions S in the table) that
\* ORDER BY keys allows: rows whose keys are all equal come in any order
RECURSIVE SortedOrders(_, _, _)
SortedOrders(events, S, keys) ==
    IF S = {} THEN {<<>>}
    ELSE UNION {
        {<<events[i]>> \o rest : rest \in SortedOrders(events, S \ {i}, keys)} :
            i \in {j \in S : \A k \in S : ~RowLT(events[k], events[j], keys)}}

\* the ORDER BY of query_events
OrderBy_dateOnly == <<"event_date">>
OrderBy == <<"event_date", "created_at">>

\* a variant of the statement that takes the rows it returns out of the
\* table (DELETE ... RETURNING)
ExecuteSelect_consuming(events, where, params) ==
    {[rows |-> rows,
      events |-> SelectSeq(events, LAMBDA e : ~RowSatisfies(e, where, params)),
      dropped |-> DropsTable(where)] :
        rows \in SortedOrders(
            events,
            {i \in 1..Len(events) : RowSatisfies(events[i], where, params)},
            OrderBy)}

\* conn.execute(sql, params) for the SELECT ... FROM events [WHERE ...]
\* ORDER BY ...: the possible results, each with the table as it is left
ExecuteSelect(events, where, params) ==
    {[rows |-> rows, events |-> events, dropped |-> DropsTable(where)] :
        rows \in SortedOrders(
            events,
            {i \in 1..Len(events) : RowSatisfies(events[i], where, params)},
            OrderBy)}

\* the dict built for one fetched row: dates and timestamps as ISO text
RowDict(row) ==
    [id |-> row.id, event_date |-> IsoFormat(row.event_date),
     event_type |-> row.event_type, description |-> row.description,
     value |-> row.value, environment |-> row.environment,
     created_at |-> IsoTimestamp(row.created_at)]

RowDicts(rows) == [i \in 1..Len(rows) |-> RowDict(rows[i])]

\* ------------------------------------------------------------------------
\* DatabaseService (app/services/database.py)
\* ------------------------------------------------------------------------

\* the columns of the events table, in the order of its definition
Columns ==
    <<"id", "event_date", "event_type", "description", "value", "environment",
      "created_at">>

ColumnSet == {Columns[k] : k \in 1..Len(Columns)}

\* A connection: the in-memory database it opened: whether it has a table
\* events, the columns of that table and its rows. A new connection holds
\* no table.
NoConnection ==
    [open |-> FALSE, id |-> 0, has_table |-> FALSE, columns |-> {}, events |-> <<>>]

NewConnection(n) ==
    [open |-> TRUE, id |-> n, has_table |-> FALSE, columns |-> {}, events |-> <<>>]

\* the text of the exception the engine raises for a statement on the
\* connection's database
Msg_CatalogError == "Catalog Error: Table with name events does not exist!"
Msg_BinderError  == "Binder Error: Referenced column not found in FROM clause!"

Msg_IOError      == "IO Error: Cannot open file: Permission denied"

EngineMessage(conn) == IF ~conn.has_table THEN Msg_CatalogError ELSE Msg_BinderError

\* the columns a SELECT of query_events names: those of its WHERE
\* conditions and of its ORDER BY
SelectColumns(where) ==
    {where[i].col : i \in 1..Len(where)} \cup {OrderBy[k] : k \in 1..Len(OrderBy)}

\* conn.execute raises (Catalog Error, Binder Error) when the database has
\* no table events or the table lacks a column the statement names
SelectRaises(conn, where) ==
    ~conn.has_table \/ ~(SelectColumns(where) \subseteq conn.columns)

\* the global _db_service: None, or a DatabaseService and its _connection
NoService == [exists |-> FALSE, connection |-> NoConnection]

\* whether duckdb.connect(database=db_path) succeeds: "up", or "down" while
\* the database at DUCKDB_DATABASE_PATH cannot be opened
VARIABLE engine

\* a variant without the check of self._connection: every call connects
get_connection_alwaysConnect(svc, opened) ==
    IF engine = "down"
    THEN [svc |-> svc, opened |-> opened, ops |-> <<"connect">>, raised |-> TRUE]
    ELSE [svc |-> [svc EXCEPT !.connection = NewConnection(opened + 1)],
          opened |-> opened + 1, ops |-> <<"connect">>, raised |-> FALSE]

\* DatabaseService.get_connection: the held connection, or a new one (the
\* opened-th of the process) when none is held
get_connection(svc, opened) ==
    IF svc.connection.open
    THEN [svc |-> svc, opened |-> opened, ops |-> <<>>, raised |-> FALSE]
    ELSE IF engine = "down"
    THEN [svc |-> svc, opened |-> opened, ops |-> <<"connect">>, raised |-> TRUE]
    ELSE [svc |-> [svc EXCEPT !.connection = NewConnection(opened + 1)],
          opened |-> opened + 1, ops |-> <<"connect">>, raised |-> FALSE]

\* DatabaseService.close_connection: the held connection is closed and none
\* is held; nothing when none is held. closed: the connections it closed.
close_connection(svc) ==
    IF svc.connection.open
    THEN [svc |-> [svc EXCEPT !.connection = NoConnection],
          closed |-> {svc.connection.id}, ops |-> <<"close">>]
    ELSE [svc |-> svc, closed |-> {}, ops |-> <<>>]

\* close_database_service: the connection of the global service is closed
\* and _db_service is None again; nothing when there is no service
close_database_service(svc) ==
    IF svc.exists
    THEN [svc |-> NoService, closed |-> close_connection(svc).closed,
          ops |-> close_connection(svc).ops]
    ELSE [svc |-> svc, closed |-> {}, ops |-> <<>>]

\* one filter of query_events: nothing when the argument is None, else a
\* condition with a placeholder and the parameter bound to it
Clause(arg, col, op, param) ==
    IF IsNone(arg) THEN [where |-> <<>>, params |-> <<>>]
    ELSE [where |-> <<Cond(col, op, Placeholder)>>, params |-> <<param>>]

\* the same with the id written into the SQL text as a quoted literal
BuildQuery_interpolated(id_filter, from_date, to_date, environment) ==
    LET i == IF IsNone(id_filter) THEN [where |-> <<>>, params |-> <<>>]
             ELSE [where |-> <<Cond("id", "=", SqlText(PyStr(id_filter) \o <<"'">>))>>,
                   params |-> <<>>]
        f == Clause(from_date, "event_date", ">=", from_date.v)
        t == Clause(to_date, "event_date", "<=", to_date.v)
        e == Clause(environment, "environment", "=", environment.v)
    IN [where  |-> i.where \o f.where \o t.where \o e.where,
        params |-> i.params \o f.params \o t.params \o e.params]

\* the same with the lower bound of the date range exclusive
BuildQuery_exclusiveFrom(id_filter, from_date, to_date, environment) ==
    LET i == Clause(id_filter, "id", "=", PyStr(id_filter))
        f == Clause(from_date, "event_date", ">", from_date.v)
        t == Clause(to_date, "event_date", "<=", to_date.v)
        e == Clause(environment, "environment", "=", environment.v)
    IN [where  |-> i.where \o f.where \o t.where \o e.where,
        params |-> i.params \o f.params \o t.params \o e.params]

\* the WHERE conditions and the parameters query_events builds, in the
\* order id, from_date, to_date, environment
BuildQuery(id_filter, from_date, to_date, environment) ==
    LET i == Clause(id_filter, "id", "=", PyStr(id_filter))
        f == Clause(from_date, "event_date", ">=", from_date.v)
        t == Clause(to_date, "event_date", "<=", to_date.v)
        e == Clause(environment, "environment", "=", environment.v)
    IN [where  |-> i.where \o f.where \o t.where \o e.where,
        params |-> i.params \o f.params \o t.params \o e.params]

\* DatabaseService.query_events: the possible outcomes. The SELECT raises
\* when the connection's database has no events table.
query_events(svc, opened, id_filter, from_date, to_date, environment) ==
    UNION {
       IF c.raised
       THEN {[svc |-> c.svc, opened |-> c.opened, ops |-> c.ops,
              raised |-> TRUE, error |-> Msg_IOError,
              data |-> <<>>, where |-> q.where, sql |-> <<>>]}
       ELSE IF SelectRaises(c.svc.connection, q.where)
       THEN {[svc |-> c.svc, opened |-> c.opened, ops |-> c.ops \o <<"select">>,
              raised |-> TRUE, error |-> EngineMessage(c.svc.connection),
              data |-> <<>>, where |-> q.where, sql |-> <<q.where>>]}
       ELSE {[svc |-> [c.svc EXCEPT !.connection.has_table = ~r.dropped,
                                    !.connection.events =
                                        IF r.dropped THEN <<>> ELSE r.events],
               opened |-> c.opened, ops |-> c.ops \o <<"select">>,
               raised |-> FALSE, error |-> "",
               data |-> RowDicts(r.rows), where |-> q.where, sql |-> <<q.where>>] :
                r \in ExecuteSelect(c.svc.connection.events, q.where, q.params)}
       : c \in {get_connection(svc, opened)},
         q \in {BuildQuery(id_filter, from_date, to_date, environment)}}

\* a variant of the copy in query_events_to_feather without the environment
\* condition
BuildFeatherQuery_noEnvironment(id_filter, from_date, to_date, environment) ==
    LET i == Clause(id_filter, "id", "=", PyStr(id_filter))
        f == Clause(from_date, "event_date", ">=", from_date.v)
        t == Clause(to_date, "event_date", "<=", to_date.v)
    IN [where  |-> i.where \o f.where \o t.where,
        params |-> i.params \o f.params \o t.params]

\* the WHERE conditions and parameters query_events_to_feather builds (its
\* own copy of the code of query_events)
BuildFeatherQuery(id_filter, from_date, to_date, environment) ==
    LET i == Clause(id_filter, "id", "=", PyStr(id_filter))
        f == Clause(from_date, "event_date", ">=", from_date.v)
        t == Clause(to_date, "event_date", "<=", to_date.v)
        e == Clause(environment, "environment", "=", environment.v)
    IN [where  |-> i.where \o f.where \o t.where \o e.where,
        params |-> i.params \o f.params \o t.params \o e.params]

\* result.fetch_arrow_table() written by feather.write_feather: the columns
\* in the order of the SELECT, each the vector of its values (dates and
\* timestamps stay engine values)
FeatherOf(rows) ==
    [schema |-> Columns,
     num_rows |-> Len(rows),
     columns |-> [c \in ColumnSet |->
                    [i \in 1..Len(rows) |-> rows[i][c]]]]

\* DatabaseService.query_events_to_feather: the possible outcomes
query_events_to_feather(svc, opened, id_filter, from_date, to_date, environment) ==
    UNION {
       IF c.raised
       THEN {[svc |-> c.svc, opened |-> c.opened, ops |-> c.ops,
              raised |-> TRUE, error |-> Msg_IOError,
              feather |-> FeatherOf(<<>>), where |-> q.where, sql |-> <<>>]}
       ELSE IF SelectRaises(c.svc.connection, q.where)
       THEN {[svc |-> c.svc, opened |-> c.opened, ops |-> c.ops \o <<"select">>,
              raised |-> TRUE, error |-> EngineMessage(c.svc.connection),
              feather |-> FeatherOf(<<>>), where |-> q.where, sql |-> <<q.where>>]}
       ELSE {[svc |-> [c.svc EXCEPT !.connection.has_table = ~r.dropped,
                                    !.connection.events =
                                        IF r.dropped THEN <<>> ELSE r.events],
               opened |-> c.opened, ops |-> c.ops \o <<"select">>,
               raised |-> FALSE, error |-> "",
               feather |-> FeatherOf(r.rows), where |-> q.where, sql |-> <<q.where>>] :
                r \in ExecuteSelect(c.svc.connection.events, q.where, q.params)}
       : c \in {get_connection(svc, opened)},
         q \in {BuildFeatherQuery(id_filter, from_date, to_date, environment)}}

\* the 12 rows of create_sample_parquet_file and of initialize_sample_data
\* (the same data; created_at is the time of loading)
T_12345 == <<"1", "2", "3", "4", "5">>
T_67890 == <<"6", "7", "8", "9", "0">>
T_11111 == <<"1", "1", "1", "1", "1">>
T_22222 == <<"2", "2", "2", "2", "2">>
T_33333 == <<"3", "3", "3", "3", "3">>
T_production  == <<"p", "r", "o", "d", "u", "c", "t", "i", "o", "n">>
T_staging     == <<"s", "t", "a", "g", "i", "n", "g">>
T_development == <<"d", "e", "v", "e", "l", "o", "p", "m", "e", "n", "t">>

LoadTime == MkTimestamp(MkDate(2024, 7, 1), 0)

SampleData ==
    <<MkRow(T_12345, MkDate(2024, 1, 15), "login", "User login event", "1.0", T_production, LoadTime),
      MkRow(T_12345, MkDate(2024, 2, 20), "purchase", "Product purchase", "99.99", T_production, LoadTime),
      MkRow(T_12345, MkDate(2024, 3, 10), "logout", "User logout event", "1.0", T_production, LoadTime),
      MkRow(T_67890, MkDate(2024, 1, 20), "login", "User login event", "1.0", T_staging, LoadTime),
      MkRow(T_67890, MkDate(2024, 2, 25), "view", "Product view event", "0.0", T_staging, LoadTime),
      MkRow(T_67890, MkDate(2024, 4, 15), "purchase", "Product purchase", "49.99", T_staging, LoadTime),
      MkRow(T_11111, MkDate(2024, 5, 1), "signup", "New user signup", "0.0", T_development, LoadTime),
      MkRow(T_11111, MkDate(2024, 5, 2), "login", "First login", "1.0", T_development, LoadTime),
      MkRow(T_22222, MkDate(2023, 12, 15), "login", "Login event", "1.0", T_production, LoadTime),
      MkRow(T_22222, MkDate(2024, 1, 1), "purchase", "New Year purchase", "199.99", T_production, LoadTime),
      MkRow(T_33333, MkDate(2024, 6, 1), "api_call", "External API call", "2.5", T_staging, LoadTime),
      MkRow(T_33333, MkDate(2024, 6, 2), "error", "System error occurred", "0.0", T_staging, LoadTime)>>

\* a variant with CREATE TABLE IF NOT EXISTS: the rows of an earlier run
\* stay in the table
initialize_sample_data_keepingRows(svc, opened) ==
    LET c == get_connection(svc, opened)
    IN IF c.raised
       THEN [svc |-> c.svc, opened |-> c.opened, ops |-> c.ops, raised |-> TRUE]
       ELSE [svc |-> [c.svc EXCEPT !.connection.has_table = TRUE,
                                   !.connection.columns = ColumnSet,
                                   !.connection.events = @ \o SampleData],
             opened |-> c.opened,
             ops |-> c.ops \o <<"create_table", "insert">>,
             raised |-> FALSE]

\* DatabaseService.initialize_sample_data: CREATE OR REPLACE TABLE events,
\* then the 12 rows are inserted
initialize_sample_data(svc, opened) ==
    LET c == get_connection(svc, opened)
    IN IF c.raised
       THEN [svc |-> c.svc, opened |-> c.opened, ops |-> c.ops, raised |-> TRUE]
       ELSE [svc |-> [c.svc EXCEPT !.connection.has_table = TRUE,
                                   !.connection.columns = ColumnSet,
                                   !.connection.events = SampleData],
             opened |-> c.opened,
             ops |-> c.ops \o <<"create_table", "insert">>,
             raised |-> FALSE]

\* The Parquet file at PARQUET_DATA_PATH: missing, unreadable, or a file
\* with columns and rows.
MissingFile == [state |-> "missing", columns |-> {}, rows |-> <<>>]
CorruptFile == [state |-> "corrupt", columns |-> {}, rows |-> <<>>]
FileOf(rows) == [state |-> "ok", columns |-> ColumnSet, rows |-> rows]

\* a readable Parquet file of another data set: none of the columns of
\* events, no rows
ForeignFile == [state |-> "ok", columns |-> {"name", "amount"}, rows |-> <<>>]

\* DatabaseService.initialize_from_parquet: a missing file is first written
\* with the sample rows; the table is created from the file; when that
\* raises, the sample data is loaded and the exception is raised again.
\* get_connection is called before the try block: when it raises, nothing
\* else is done.
initialize_from_parquet(svc, opened, file) ==
    LET c  == get_connection(svc, opened)
        f  == IF file.state = "missing" THEN FileOf(SampleData) ELSE file
    IN IF c.raised
       THEN [svc |-> c.svc, opened |-> c.opened, file |-> file, raised |-> TRUE,
             ops |-> c.ops]
       ELSE IF f.state = "ok"
       THEN [svc |-> [c.svc EXCEPT !.connection.has_table = TRUE,
                                   !.connection.columns = f.columns,
                                   !.connection.events = f.rows],
             opened |-> c.opened, file |-> f, raised |-> FALSE,
             ops |-> c.ops \o <<"create_table">>]
       ELSE LET s == initialize_sample_data(c.svc, c.opened)
            IN [svc |-> s.svc, opened |-> s.opened, file |-> f, raised |-> TRUE,
                ops |-> c.ops \o <<"create_table">> \o s.ops]

\* sorted(S) for a set of ids, as SELECT DISTINCT id ... ORDER BY id
RECURSIVE SortedIds(_)
SortedIds(S) ==
    IF S = {} THEN <<>>
    ELSE LET m == CHOOSE x \in S : \A y \in S : StrLE(x, y)
         IN <<m>> \o SortedIds(S \ {m})

\* a variant without the aggregates: the dates of the first and the last
\* row of the table
DateRange_firstAndLast(events) ==
    IF events = <<>> THEN [min |-> None, max |-> None]
    ELSE [min |-> VStr(IsoFormat(events[1].event_date)),
          max |-> VStr(IsoFormat(events[Len(events)].event_date))]

\* MIN(event_date), MAX(event_date) as ISO text, None for an empty table
DateRange(events) ==
    IF events = <<>> THEN [min |-> None, max |-> None]
    ELSE LET dates == {events[i].event_date : i \in 1..Len(events)}
         IN [min |-> VStr(IsoFormat(CHOOSE d \in dates : \A e \in dates : DateLE(d, e))),
             max |-> VStr(IsoFormat(CHOOSE d \in dates : \A e \in dates : DateLE(e, d)))]

\* get_table_info on the connection c.svc.connection that get_connection
\* returned
TableInfoOn(c) ==
    IF c.raised
    THEN [svc |-> c.svc, opened |-> c.opened, ops |-> c.ops,
          raised |-> TRUE, error |-> Msg_IOError]
    ELSE IF ~c.svc.connection.has_table
    THEN [svc |-> c.svc, opened |-> c.opened, ops |-> c.ops \o <<"describe">>,
          raised |-> TRUE, error |-> EngineMessage(c.svc.connection)]
    ELSE IF "id" \notin c.svc.connection.columns
    THEN [svc |-> c.svc, opened |-> c.opened,
          ops |-> c.ops \o <<"describe", "count", "distinct_ids">>,
          raised |-> TRUE, error |-> EngineMessage(c.svc.connection)]
    ELSE IF "event_date" \notin c.svc.connection.columns
    THEN [svc |-> c.svc, opened |-> c.opened,
          ops |-> c.ops \o <<"describe", "count", "distinct_ids", "date_range">>,
          raised |-> TRUE, error |-> EngineMessage(c.svc.connection)]
    ELSE [svc |-> c.svc, opened |-> c.opened,
          ops |-> c.ops \o <<"describe", "count", "distinct_ids", "date_range">>,
          raised |-> FALSE, error |-> "",
          info |-> [schema |-> c.svc.connection.columns,
                    row_count |-> Len(c.svc.connection.events),
                    unique_ids |-> SortedIds({c.svc.connection.events[i].id :
                                        i \in 1..Len(c.svc.connection.events)}),
                    date_range |-> DateRange(c.svc.connection.events)]]

\* DatabaseService.get_table_info: DESCRIBE events, COUNT(*), the distinct
\* ids in order and the date range; a statement the engine refuses raises
\* and ends the method. The outcomes of one call (there is exactly one).
get_table_info(svc, opened) ==
    {TableInfoOn(c) : c \in {get_connection(svc, opened)}}

\* a variant without the existence check: every call constructs and
\* initialises a service
get_database_service_noCheck(svc, opened, file) ==
    LET new == [exists |-> TRUE, connection |-> NoConnection]
        p   == initialize_from_parquet(new, opened, file)
        s   == initialize_sample_data(p.svc, p.opened)
    IN IF ~p.raised
       THEN [svc |-> p.svc, opened |-> p.opened, file |-> p.file, ops |-> p.ops,
             raised |-> FALSE, error |-> ""]
       ELSE [svc |-> s.svc, opened |-> s.opened, file |-> p.file,
             ops |-> p.ops \o s.ops, raised |-> s.raised,
             error |-> IF s.raised THEN Msg_IOError ELSE ""]

\* get_database_service: the global service, created and initialised on the
\* first call (from the Parquet file, else with the sample data)
get_database_service(svc, opened, file) ==
    IF svc.exists
    THEN [svc |-> svc, opened |-> opened, file |-> file, ops |-> <<>>,
          raised |-> FALSE, error |-> ""]
    ELSE LET new == [exists |-> TRUE, connection |-> NoConnection]
             p   == initialize_from_parquet(new, opened, file)
             s   == initialize_sample_data(p.svc, p.opened)
         IN IF ~p.raised
            THEN [svc |-> p.svc, opened |-> p.opened, file |-> p.file, ops |-> p.ops,
                  raised |-> FALSE, error |-> ""]
            ELSE IF ~s.raised
            THEN [svc |-> s.svc, opened |-> s.opened, file |-> p.file,
                  ops |-> p.ops \o s.ops, raised |-> FALSE, error |-> ""]
            ELSE \* the exception of initialize_sample_data leaves the function;
                 \* _db_service stays assigned
                 [svc |-> s.svc, opened |-> s.opened, file |-> p.file,
                  ops |-> p.ops \o s.ops, raised |-> TRUE, error |-> Msg_IOError]

\* ------------------------------------------------------------------------
\* POST /api/query (app/api/query.py) and the 422 of app/main.py
\* ------------------------------------------------------------------------

\* a variant that answers as FastAPI does when no handler is registered for
\* RequestValidationError: the errors as they are, under "detail"
ValidationResponse_detailOnly(body, errors) ==
    [kind |-> "http", status |-> 422, request |-> body,
     error |-> "Unprocessable Entity",
     validation_errors |-> {},
     body |-> [detail |-> errors]]

\* validation_exception_handler: the 422 body FastAPI's request validation
\* ends in, one entry per error; field is the error's loc under "body"
ValidationResponse(body, errors) ==
    LET validation_errors ==
            {[field |-> <<"body">> \o (IF e.loc = "" THEN <<>> ELSE <<e.loc>>)
                          \o (IF e.branch = "" THEN <<>> ELSE <<e.branch>>),
              message |-> e.msg, type |-> e.type] : e \in errors}
    IN [kind |-> "http", status |-> 422, request |-> body,
        error |-> "Request validation failed",
        validation_errors |-> validation_errors,
        body |-> [error |-> "Request validation failed",
                  details |-> "The request contains invalid or missing data",
                  validation_errors |-> validation_errors,
                  error_id |-> "uuid4",
                  timestamp |-> "now"]]

\* ErrorResponse raised as HTTPException by the except branches: FastAPI
\* answers an HTTPException with the body {"detail": <its detail>}
ErrorResponse(body, status, error, details) ==
    [kind |-> "http", status |-> status, request |-> body, error |-> error,
     details |-> details,
     body |-> [detail |-> [error |-> error, details |-> details,
                           status_code |-> status]]]

\* a variant that converts the id without the None check: str(payload.id)
IdText_noNoneCheck(p) == VStr(PyStr(p.id))

\* str(payload.id) if payload.id is not None else None
IdText(p) == IF IsNone(p.id) THEN None ELSE VStr(PyStr(p.id))

\* a variant that adds the parsed date range block to every response
DateRangeParsed_always(d) ==
    [present |-> TRUE,
     from |-> IF IsNone(d.from_date) THEN None ELSE VStr(IsoFormat(d.from_date.v)),
     to   |-> IF IsNone(d.to_date) THEN None ELSE VStr(IsoFormat(d.to_date.v))]

\* the parsed date range block, added when a date was supplied
DateRangeParsed(d) ==
    [present |-> ~IsNone(d.from_date) \/ ~IsNone(d.to_date),
     from |-> IF IsNone(d.from_date) THEN None ELSE VStr(IsoFormat(d.from_date.v)),
     to   |-> IF IsNone(d.to_date) THEN None ELSE VStr(IsoFormat(d.to_date.v))]

EchoedFilters(p) ==
    [id |-> IdText(p), fromDate |-> p.fromDate, toDate |-> p.toDate,
     environment |-> p.environment]

\* a variant that copies every column of the row into the properties
Feature_allColumns(row) ==
    [type |-> "Feature", id |-> row.id,
     properties |-> row,
     geometry |-> None]

\* one feature per row: the row's id, its other columns as properties
Feature(row) ==
    [type |-> "Feature", id |-> row.id,
     properties |-> [c \in (DOMAIN row) \ {"id"} |-> row[c]],
     geometry |-> None]

\* the 200 body of query_data for the rows data
QueryResponseBody(body, p, d, data) ==
    IF p.format.v = Text_feature
    THEN [kind |-> "http", status |-> 200, request |-> body, format |-> "feature",
          features |-> [i \in 1..Len(data) |-> Feature(data[i])],
          count |-> Len(data),
          metadata |-> [query_parameters |-> EchoedFilters(p),
                        date_range_parsed |-> DateRangeParsed(d)]]
    ELSE [kind |-> "http", status |-> 200, request |-> body, format |-> "json",
          data |-> data,
          count |-> Len(data),
          query_info |-> [id |-> IdText(p), fromDate |-> p.fromDate,
                          toDate |-> p.toDate, environment |-> p.environment,
                          date_range_parsed |-> DateRangeParsed(d)]]

\* what a handler leaves when it ends after get_database_service returned g
\* without a SELECT
EndsWith(resp, g) ==
    [response |-> resp, svc |-> g.svc, opened |-> g.opened, file |-> g.file,
     ops |-> g.ops, sql |-> <<>>]

\* what a handler leaves when it ends without having touched the service
Untouched(resp, svc, opened, file) ==
    [response |-> resp, svc |-> svc, opened |-> opened, file |-> file,
     ops |-> <<>>, sql |-> <<>>]

\* the handler with the payload built inside its try block, after the
\* database service was obtained
RunsHandler_beforeValidation(body) == TRUE

\* whether the handler body runs for the request: FastAPI builds the
\* QueryPayload argument first and calls the handler only when that
\* validation succeeded
RunsHandler(body) == Validate(body).ok

\* the try block of query_data, on the validation result v and the result g
\* of get_database_service
query_data_try(body, v, g) ==
    IF ~v.ok
    THEN \* except ValidationError
         {EndsWith(ErrorResponse(body, 422, "Validation failed", "validation_errors"), g)}
    ELSE IF g.raised
    THEN \* except Exception, for the exception of get_database_service
         {EndsWith(ErrorResponse(body, 500, "Internal server error",
                       "An unexpected error occurred while processing the request"), g)}
    ELSE UNION {
        IF d.raised
        THEN \* except ValueError
             {EndsWith(ErrorResponse(body, 400, "Invalid input data", "str(e)"), g)}
        ELSE {[response |->
                 IF r.raised
                 THEN \* except Exception
                      ErrorResponse(body, 500, "Internal server error",
                          "An unexpected error occurred while processing the request")
                 ELSE QueryResponseBody(body, v.payload, d, r.data),
               svc |-> r.svc, opened |-> r.opened, file |-> g.file,
               ops |-> g.ops \o r.ops, sql |-> r.sql] :
                 r \in query_events(g.svc, g.opened, IdText(v.payload),
                                    d.from_date, d.to_date, v.payload.environment)}
        : d \in {get_parsed_dates(v.payload)}}

\* query_data: the possible outcomes of one request (the response, and the
\* state the request leaves)
query_data(body, svc, opened, file) ==
    IF ~RunsHandler(body)
    THEN {Untouched(ValidationResponse(body, Validate(body).errors), svc, opened, file)}
    ELSE UNION {query_data_try(body, v, g) :
                    v \in {Validate(body)},
                    g \in {get_database_service(svc, opened, file)}}

\* ------------------------------------------------------------------------
\* POST /api/query/feather
\* ------------------------------------------------------------------------

T_id_   == <<"i", "d", "_">>
T_from_ == <<"f", "r", "o", "m", "_">>
T_to_   == <<"t", "o", "_">>
T_env_  == <<"e", "n", "v", "_">>
T_data  == <<"d", "a", "t", "a">>
T_query_results_ ==
    <<"q", "u", "e", "r", "y", "_", "r", "e", "s", "u", "l", "t", "s", "_">>
T_dot_feather == <<".", "f", "e", "a", "t", "h", "e", "r">>

\* str.replace('/', '_')
ReplaceSlash(s) == [i \in 1..Len(s) |-> IF s[i] = "/" THEN "_" ELSE s[i]]

\* "_".join(parts)
RECURSIVE JoinUnderscore(_)
JoinUnderscore(parts) ==
    IF parts = <<>> THEN <<>>
    ELSE IF Len(parts) = 1 THEN parts[1]
    ELSE parts[1] \o <<"_">> \o JoinUnderscore(Tail(parts))

\* the attachment's filename, from the payload
FeatherFilename(p) ==
    LET filename_parts ==
            (IF ~IsNone(p.id) THEN <<T_id_ \o PyStr(p.id)>> ELSE <<>>)
            \o (IF Truthy(p.fromDate) THEN <<T_from_ \o ReplaceSlash(p.fromDate.v)>> ELSE <<>>)
            \o (IF Truthy(p.toDate) THEN <<T_to_ \o ReplaceSlash(p.toDate.v)>> ELSE <<>>)
            \o (IF Truthy(p.environment) THEN <<T_env_ \o p.environment.v>> ELSE <<>>)
    IN T_query_results_
        \o (IF filename_parts # <<>> THEN JoinUnderscore(filename_parts) ELSE T_data)
        \o T_dot_feather

\* the StreamingResponse of query_data_feather
FeatherResponse(body, p, feather) ==
    [kind |-> "http", status |-> 200, request |-> body, format |-> "feather",
     media_type |-> "application/octet-stream",
     disposition |-> "attachment",
     filename |-> FeatherFilename(p),
     content |-> feather]

\* the try block of query_data_feather
query_data_feather_try(body, v, g) ==
    IF ~v.ok
    THEN \* except ValidationError
         {EndsWith(ErrorResponse(body, 422, "Validation failed", "validation_errors"), g)}
    ELSE IF g.raised
    THEN \* except Exception, for the exception of get_database_service
         {EndsWith(ErrorResponse(body, 500, "Internal server error",
                       "An unexpected error occurred while processing the Feather request"), g)}
    ELSE UNION {
        IF d.raised
        THEN \* except ValueError
             {EndsWith(ErrorResponse(body, 400, "Invalid input data", "str(e)"), g)}
        ELSE {[response |->
                 IF r.raised
                 THEN \* except Exception
                      ErrorResponse(body, 500, "Internal server error",
                          "An unexpected error occurred while processing the Feather request")
                 ELSE FeatherResponse(body, v.payload, r.feather),
               svc |-> r.svc, opened |-> r.opened, file |-> g.file,
               ops |-> g.ops \o r.ops, sql |-> r.sql] :
                 r \in query_events_to_feather(g.svc, g.opened, IdText(v.payload),
                                               d.from_date, d.to_date,
                                               v.payload.environment)}
        : d \in {get_parsed_dates(v.payload)}}

\* query_data_feather: the possible outcomes of one request
query_data_feather(body, svc, opened, file) ==
    IF ~RunsHandler(body)
    THEN {Untouched(ValidationResponse(body, Validate(body).errors), svc, opened, file)}
    ELSE UNION {query_data_feather_try(body, v, g) :
                    v \in {Validate(body)},
                    g \in {get_database_service(svc, opened, file)}}

\* ------------------------------------------------------------------------
\* GET /api/health and GET /api/info
\* ------------------------------------------------------------------------

\* what get_database_service and get_table_info leave, with the response
AfterTableInfo(resp, g, t) ==
    [response |-> resp, svc |-> t.svc, opened |-> t.opened, file |-> g.file,
     ops |-> g.ops \o t.ops, sql |-> <<>>]

\* the answer of health_check after get_table_info, or get_database_service
\* when it raised, ended as t
HealthResponse(t) ==
    IF t.raised
    THEN [kind |-> "get", endpoint |-> "health", status |-> 503,
          body |-> [status |-> "unhealthy", error |-> t.error]]
    ELSE [kind |-> "get", endpoint |-> "health", status |-> 200,
          body |-> [status |-> "healthy",
                    database |-> [connected |-> TRUE,
                                  row_count |-> t.info.row_count,
                                  available_ids |-> t.info.unique_ids]]]

\* a variant with get_database_service called before the try block: its
\* exception leaves the handler and the request fails
health_check_serviceOutsideTry(svc, opened, file) ==
    UNION {IF g.raised
           THEN {EndsWith([kind |-> "get", endpoint |-> "health", status |-> 500,
                           body |-> [error |-> "Internal server error"]], g)}
           ELSE {AfterTableInfo(HealthResponse(t), g, t) :
                    t \in get_table_info(g.svc, g.opened)} :
           g \in {get_database_service(svc, opened, file)}}

\* health_check: healthy with the row count and the ids, or 503 with the
\* text of the exception
health_check(svc, opened, file) ==
    UNION {IF g.raised
           THEN {EndsWith(HealthResponse(g), g)}
           ELSE {AfterTableInfo(HealthResponse(t), g, t) :
                    t \in get_table_info(g.svc, g.opened)} :
           g \in {get_database_service(svc, opened, file)}}

\* the answer of database_info after get_table_info, or
\* get_database_service when it raised, ended as t
InfoResponse(t) ==
    IF t.raised
    THEN [kind |-> "get", endpoint |-> "info", status |-> 500,
          body |-> [detail |-> [error |-> "Failed to retrieve database information"]]]
    ELSE [kind |-> "get", endpoint |-> "info", status |-> 200,
          body |-> [database_info |-> t.info, api_info |-> "api_info"]]

\* database_info: the table info and the static description of the API, or
\* HTTPException(500) with a fixed detail
database_info(svc, opened, file) ==
    UNION {IF g.raised
           THEN {EndsWith(InfoResponse(g), g)}
           ELSE {AfterTableInfo(InfoResponse(t), g, t) :
                    t \in get_table_info(g.svc, g.opened)} :
           g \in {get_database_service(svc, opened, file)}}

\* ------------------------------------------------------------------------
\* State
\* ------------------------------------------------------------------------

VARIABLES
    parquet_file,   \* the file at PARQUET_DATA_PATH
    db_service,     \* the DatabaseService in use (the global _db_service)
    opened,         \* the number of connections opened so far
    request,        \* the request (or call) in flight
    response,       \* the response to the last request, with that request
    ops,            \* the engine operations of the last request, in order
    sql_log,        \* the WHERE conditions of the last SELECT executed
    open_connections,    \* the connections opened and not closed, by number
    in_flight,           \* the requests accepted and not served yet, by slot
    client_error_counts, \* error_logging: client -> bucket -> reports accepted
    global_error_count,  \* error_logging: count and window_start
    now,                 \* the clock (datetime.now()), in seconds
    accepted_reports     \* the reports accepted, counted by bucket and by window

limiter_vars == <<client_error_counts, global_error_count, now, accepted_reports>>

\* what a step of the query API leaves alone
env_vars == <<engine, open_connections, in_flight, limiter_vars>>

vars == <<parquet_file, db_service, opened, request, response, ops, sql_log,
          engine, open_connections, in_flight, limiter_vars>>

NoRequest  == [kind |-> "none"]
NoResponse == [kind |-> "none", status |-> 0]

\* the largest number of requests accepted and not served yet
MaxInFlight == 2

NoneInFlight == [k \in 1..MaxInFlight |-> NoRequest]

\* the connections a step opened are open: they are the connections
\* numbered opened + 1 .. opened'
Connects == open_connections' = open_connections \cup ((opened + 1)..opened')

\* the clients that report errors (the values of get_client_identifier)
Clients == {"10.0.0.1:1", "10.0.0.2:2"}

\* the state of the module error_logging when it is imported at the time t:
\* client_error_counts is an empty defaultdict (a dict is the set of its
\* items), the global window starts at the time of the import, and no
\* report was accepted
LimiterAt(t) ==
    /\ now = t
    /\ client_error_counts = [c \in Clients |-> {}]
    /\ global_error_count = [count |-> 0, window_start |-> t]
    /\ accepted_reports = [in_bucket |-> {}, in_window |-> {}]

\* the engine can be reached, and no request is queued
QuietEnvironment ==
    /\ engine = "up"
    /\ in_flight = NoneInFlight
    /\ LimiterAt(0)

\* ------------------------------------------------------------------------
\* Inputs
\* ------------------------------------------------------------------------

\* the largest number of rows of a table the model starts from
MaxRows == 2

T_12   == <<"1", "2">>
T_m3   == <<"-", "3">>
T_csv  == <<"c", "s", "v">>
T_injection == <<"1", "2", "'", ";", " ">> \o Text_DropTable \o <<";", " ", "-", "-">>

Day1 == MkDate(2024, 1, 9)
Day2 == MkDate(2024, 1, 10)
Day3 == MkDate(2024, 2, 1)

T_day1     == <<"2", "0", "2", "4", "/", "1", "/", "9">>
T_day2     == <<"2", "0", "2", "4", "/", "0", "1", "/", "1", "0">>
T_day_dash == <<"2", "0", "2", "4", "-", "0", "1", "-", "1", "0">>

Time1 == MkTimestamp(MkDate(2024, 7, 1), 59)
Time2 == MkTimestamp(MkDate(2024, 7, 1), 3600)

\* a total order of the rows of a row domain, to start from one table per
\* multiset of rows
RowRank(r) ==
    (IF r.id = T_12 THEN 0 ELSE 8)
    + (IF r.event_date = Day1 THEN 0 ELSE 4)
    + (IF r.environment = T_production THEN 0 ELSE 2)
    + (IF r.created_at = Time1 THEN 0 ELSE 1)

TablesOver(domain) ==
    UNION {{t \in [1..n -> domain] :
                \A i \in 1..(n - 1) : RowRank(t[i]) <= RowRank(t[i + 1])} :
           n \in 0..MaxRows}

\* rows of the tables query_events is called on
ServiceRows ==
    {MkRow(id, dt, "login", "User login event", "1.0", env, ts) :
        id \in {T_12, T_injection}, dt \in {Day1, Day2},
        env \in {T_production, T_staging}, ts \in {Time1, Time2}}

\* rows of the Parquet files the API starts from
FileRows ==
    {MkRow(T_12, dt, "login", "User login event", "1.0", T_production, Time1) :
        dt \in {Day1, Day2}}
    \cup {MkRow(T_12, Day1, "login", "User login event", "1.0", T_staging, Time1),
          MkRow(<<>>, Day1, "login", "User login event", "1.0", T_production, Time1)}

ParquetFiles ==
    {MissingFile, CorruptFile} \cup {FileOf(t) : t \in TablesOver(FileRows)}

\* arguments of a call of query_events
IdFilters   == {None, VStr(T_12), VStr(T_injection), VStr(<<>>)}
DateFilters == {None} \cup {[t |-> "date", v |-> d] : d \in {Day1, Day2, Day3}}
EnvFilters  == {None, VStr(T_production), VStr(<<>>)}

\* request bodies of POST /api/query
BodyIds     == {Absent, None, VStr(T_12), VInt(12), VStr(<<>>), VInt(-3)}
BodyDates   == {Absent, None, VStr(T_day1), VStr(T_day2), VStr(T_day_dash)}
BodyEnvs    == {Absent, None, VStr(T_production), VStr(<<>>)}
BodyFormats == {Absent, None, VStr(Text_json), VStr(Text_feature), VStr(T_csv)}

Bodies ==
    [id : BodyIds, fromDate : BodyDates, toDate : BodyDates,
     environment : BodyEnvs, format : BodyFormats]

\* request bodies of POST /api/query/feather
FeatherBodies ==
    [id : BodyIds, fromDate : BodyDates, toDate : BodyDates,
     environment : BodyEnvs, format : {Absent}]

\* ------------------------------------------------------------------------
\* Spec: the API, from process start
\* ------------------------------------------------------------------------

Init ==
    /\ QuietEnvironment
    /\ open_connections = {}
    /\ parquet_file \in ParquetFiles
    /\ db_service = NoService
    /\ opened = 0
    /\ request = NoRequest
    /\ response = NoResponse
    /\ ops = <<>>
    /\ sql_log = <<>>

\* a client posts a body to /api/query
PostQuery ==
    /\ request = NoRequest
    /\ response = NoResponse
    /\ \E body \in Bodies : request' = [kind |-> "query", body |-> body]
    /\ UNCHANGED <<env_vars, parquet_file, db_service, opened, response, ops, sql_log>>

\* the request is served by query_data
QueryData ==
    /\ request.kind = "query"
    /\ \E o \in query_data(request.body, db_service, opened, parquet_file) :
        /\ response' = o.response
        /\ db_service' = o.svc
        /\ opened' = o.opened
        /\ parquet_file' = o.file
        /\ ops' = o.ops
        /\ sql_log' = o.sql
    /\ request' = NoRequest
    /\ Connects
    /\ UNCHANGED <<engine, in_flight, limiter_vars>>

\* a client posts a body to /api/query/feather
PostFeather ==
    /\ request = NoRequest
    /\ response = NoResponse
    /\ \E body \in FeatherBodies : request' = [kind |-> "feather", body |-> body]
    /\ UNCHANGED <<env_vars, parquet_file, db_service, opened, response, ops, sql_log>>

\* the request is served by query_data_feather
QueryDataFeather ==
    /\ request.kind = "feather"
    /\ \E o \in query_data_feather(request.body, db_service, opened, parquet_file) :
        /\ response' = o.response
        /\ db_service' = o.svc
        /\ opened' = o.opened
        /\ parquet_file' = o.file
        /\ ops' = o.ops
        /\ sql_log' = o.sql
    /\ request' = NoRequest
    /\ Connects
    /\ UNCHANGED <<engine, in_flight, limiter_vars>>

\* a client gets /api/health or /api/info
GetHealth ==
    /\ request = NoRequest
    /\ response = NoResponse
    /\ request' = [kind |-> "health"]
    /\ UNCHANGED <<env_vars, parquet_file, db_service, opened, response, ops, sql_log>>

GetInfo ==
    /\ request = NoRequest
    /\ response = NoResponse
    /\ request' = [kind |-> "info"]
    /\ UNCHANGED <<env_vars, parquet_file, db_service, opened, response, ops, sql_log>>

\* the request is served by health_check
HealthCheck ==
    /\ request.kind = "health"
    /\ \E o \in health_check(db_service, opened, parquet_file) :
          /\ response' = o.response
          /\ db_service' = o.svc
          /\ opened' = o.opened
          /\ parquet_file' = o.file
          /\ ops' = o.ops
          /\ sql_log' = o.sql
    /\ request' = NoRequest
    /\ Connects
    /\ UNCHANGED <<engine, in_flight, limiter_vars>>

\* the request is served by database_info
DatabaseInfo ==
    /\ request.kind = "info"
    /\ \E o \in database_info(db_service, opened, parquet_file) :
          /\ response' = o.response
          /\ db_service' = o.svc
          /\ opened' = o.opened
          /\ parquet_file' = o.file
          /\ ops' = o.ops
          /\ sql_log' = o.sql
    /\ request' = NoRequest
    /\ Connects
    /\ UNCHANGED <<engine, in_flight, limiter_vars>>

\* the client takes the response; the next request starts a new log
ReceiveResponse ==
    /\ response # NoResponse
    /\ response' = NoResponse
    /\ ops' = <<>>
    /\ sql_log' = <<>>
    /\ UNCHANGED <<env_vars, parquet_file, db_service, opened, request>>

Next ==
    \/ PostQuery
    \/ QueryData
    \/ PostFeather
    \/ QueryDataFeather
    \/ GetHealth
    \/ HealthCheck
    \/ GetInfo
    \/ DatabaseInfo
    \/ ReceiveResponse

Spec == Init /\ [][Next]_vars

\* ------------------------------------------------------------------------
\* SpecService: calls of DatabaseService.query_events on a service whose
\* events table holds any of the tables
\* ------------------------------------------------------------------------

InitService ==
    /\ QuietEnvironment
    /\ open_connections = {1}
    /\ parquet_file = MissingFile
    /\ \E t \in TablesOver(ServiceRows) :
        db_service = [exists |-> TRUE,
                      connection |-> [open |-> TRUE, id |-> 1,
                                      has_table |-> TRUE, columns |-> ColumnSet,
                                      events |-> t]]
    /\ opened = 1
    /\ request = NoRequest
    /\ response = NoResponse
    /\ ops = <<>>
    /\ sql_log = <<>>

CallQueryEvents ==
    /\ request = NoRequest
    /\ response = NoResponse
    /\ \E i \in IdFilters, f \in DateFilters, t \in DateFilters, e \in EnvFilters :
        request' = [kind |-> "query_events", id_filter |-> i,
                    from_date |-> f, to_date |-> t, environment |-> e]
    /\ UNCHANGED <<env_vars, parquet_file, db_service, opened, response, ops, sql_log>>

\* the call runs: its return value (or exception), with the arguments and
\* the table it ran on
QueryEvents ==
    /\ request.kind = "query_events"
    /\ \E o \in query_events(db_service, opened, request.id_filter,
                             request.from_date, request.to_date,
                             request.environment) :
        /\ response' = [kind |-> "return", status |-> 0,
                        raised |-> o.raised,
                        request |-> request,
                        table |-> db_service.connection.events,
                        data |-> o.data]
        /\ db_service' = o.svc
        /\ opened' = o.opened
        /\ ops' = o.ops
        /\ sql_log' = o.sql
    /\ request' = NoRequest
    /\ Connects
    /\ UNCHANGED <<parquet_file, engine, in_flight, limiter_vars>>

\* the caller takes the result
ReturnQueryEvents ==
    /\ response # NoResponse
    /\ response' = NoResponse
    /\ ops' = <<>>
    /\ sql_log' = <<>>
    /\ UNCHANGED <<env_vars, parquet_file, db_service, opened, request>>

NextService ==
    \/ CallQueryEvents
    \/ QueryEvents
    \/ ReturnQueryEvents

SpecService == InitService /\ [][NextService]_vars

\* ------------------------------------------------------------------------
\* SpecValidate: QueryPayload(**body) on bodies whose date texts are put
\* together from year, month and day parts
\* ------------------------------------------------------------------------

YearParts  == {<<"2", "0", "2", "3">>, <<"2", "0", "2", "4">>, <<"1", "5">>}
MonthParts == {<<"0", "2">>, <<"2">>, <<"1", "3">>}
DayParts   == {<<"2", "9">>, <<"9">>, <<"3", "0">>, <<" ", "9">>,
               <<"2", "0", "2", "4">>}
Separators == {"/", "-"}

DateTexts ==
    {y \o <<sep>> \o m \o <<sep>> \o d :
        y \in YearParts, sep \in Separators, m \in MonthParts, d \in DayParts}
    \cup {<<>>,
          <<"0", "0", "0", "0", "/", "0", "2", "/", "0", "9">>,
          <<"2", "0", "2", "4", "/", "0", "2", "/", "2", "9", "0">>,
          <<"2", "0", "2", "4", "/", "1", "2", "/", "3", "1">>,
          <<"2", "0", "2", "4", "/", "0", "0", "/", "0", "1">>,
          <<"2", "0", "2", "4", "/", "1", "/", "0">>,
          <<"2", "0", "2", "4", "/", "1", "/", "5">>}

ValidateDates == {Absent, None} \cup {VStr(s) : s \in DateTexts}

ValidateBodies ==
    [id : {Absent, VStr(<<>>)}, fromDate : ValidateDates, toDate : ValidateDates,
     environment : {Absent}, format : {Absent, None, VStr(T_csv)}]

InitValidate ==
    /\ QuietEnvironment
    /\ open_connections = {}
    /\ parquet_file = MissingFile
    /\ db_service = NoService
    /\ opened = 0
    /\ request \in {[kind |-> "payload", body |-> b] : b \in ValidateBodies}
    /\ response = NoResponse
    /\ ops = <<>>
    /\ sql_log = <<>>

\* QueryPayload(**body): the model instance, or the ValidationError
ValidatePayload ==
    /\ request.kind = "payload"
    /\ response' = [kind |-> "payload", status |-> 0, request |-> request.body,
                    result |-> Validate(request.body)]
    /\ request' = NoRequest
    /\ UNCHANGED <<env_vars, parquet_file, db_service, opened, ops, sql_log>>

NextValidate == ValidatePayload

SpecValidate == InitValidate /\ [][NextValidate]_vars

\* ------------------------------------------------------------------------
\* SpecFaults: the API when requests are malformed or the storage engine
\* raises: the Parquet file may hold a table that lacks the columns of the
\* events table, and a request body may be no JSON object at all
\* ------------------------------------------------------------------------

\* the body of a request sent with invalid JSON text, and of a request sent
\* as a form (tests/test_api.py, test_query_endpoint_invalid_json and
\* test_query_endpoint_wrong_content_type)
InvalidJsonBody == [raw |-> "invalid json", content_type |-> "application/json"]
FormBody == [raw |-> "id=12345", content_type |-> "application/x-www-form-urlencoded"]

FaultFiles ==
    {ForeignFile, MissingFile, CorruptFile,
     FileOf(<<MkRow(T_12, Day1, "login", "User login event", "1.0", T_production, Time1),
              MkRow(T_12, Day2, "login", "User login event", "1.0", T_staging, Time1)>>)}

FaultBodies ==
    {InvalidJsonBody, FormBody} \cup
    [id : {Absent, VStr(T_12), VList(<<1, 2>>)},
     fromDate : {Absent, VStr(T_day2), VStr(T_day_dash)},
     toDate : {Absent, VStr(T_day1), VStr(T_day_dash)},
     environment : {Absent},
     format : {Absent, VStr(Text_feature), VStr(T_csv)}]

InitFaults ==
    /\ QuietEnvironment
    /\ open_connections = {}
    /\ parquet_file \in FaultFiles
    /\ db_service = NoService
    /\ opened = 0
    /\ request = NoRequest
    /\ response = NoResponse
    /\ ops = <<>>
    /\ sql_log = <<>>

\* a client posts a body, well formed or not, to /api/query
PostAnyQuery ==
    /\ request = NoRequest
    /\ response = NoResponse
    /\ \E body \in FaultBodies : request' = [kind |-> "query", body |-> body]
    /\ UNCHANGED <<env_vars, parquet_file, db_service, opened, response, ops, sql_log>>

\* a client posts a body, well formed or not, to /api/query/feather
PostAnyFeather ==
    /\ request = NoRequest
    /\ response = NoResponse
    /\ \E body \in FaultBodies : request' = [kind |-> "feather", body |-> body]
    /\ UNCHANGED <<env_vars, parquet_file, db_service, opened, response, ops, sql_log>>

NextFaults ==
    \/ PostAnyQuery
    \/ QueryData
    \/ PostAnyFeather
    \/ QueryDataFeather
    \/ GetHealth
    \/ HealthCheck
    \/ GetInfo
    \/ DatabaseInfo
    \/ ReceiveResponse

SpecFaults == InitFaults /\ [][NextFaults]_vars

\* ------------------------------------------------------------------------
\* SpecLifecycle: the life of the global database service: several requests
\* are accepted before one is served (the handlers are coroutines without
\* an await, so each runs to its end before the next starts), the engine
\* may be unreachable for a while, and the application shuts down (lifespan)
\* and may be started again in the same process
\* ------------------------------------------------------------------------

EmptyBody ==
    [id |-> Absent, fromDate |-> Absent, toDate |-> Absent,
     environment |-> Absent, format |-> Absent]

LifecycleFiles ==
    {MissingFile, CorruptFile,
     FileOf(<<MkRow(T_12, Day1, "login", "User login event", "1.0", T_production, Time1)>>)}

LifecycleRequests ==
    {[kind |-> "query", body |-> EmptyBody], [kind |-> "feather", body |-> EmptyBody],
     [kind |-> "health"], [kind |-> "info"]}

InitLifecycle ==
    /\ parquet_file \in LifecycleFiles
    /\ db_service = NoService
    /\ opened = 0
    /\ open_connections = {}
    /\ request = NoRequest
    /\ response = NoResponse
    /\ ops = <<>>
    /\ sql_log = <<>>
    /\ engine \in {"up", "down"}
    /\ in_flight = NoneInFlight
    /\ LimiterAt(0)

\* the largest number of connections a behaviour of the lifecycle opens
MaxOpened == 3

\* the server accepts a request while earlier ones wait to be served
Accept ==
    /\ response = NoResponse
    /\ \E k \in 1..MaxInFlight, r \in LifecycleRequests :
        /\ in_flight[k] = NoRequest
        /\ \A j \in 1..(k - 1) : in_flight[j] # NoRequest
        /\ in_flight' = [in_flight EXCEPT ![k] = r]
    /\ UNCHANGED <<parquet_file, db_service, opened, request, response, ops,
                   sql_log, engine, open_connections, limiter_vars>>

\* the outcomes of the handler of the request r
HandlerOutcomes(r) ==
    IF r.kind = "query" THEN query_data(r.body, db_service, opened, parquet_file)
    ELSE IF r.kind = "feather"
    THEN query_data_feather(r.body, db_service, opened, parquet_file)
    ELSE IF r.kind = "health" THEN health_check(db_service, opened, parquet_file)
    ELSE database_info(db_service, opened, parquet_file)

\* the event loop runs the handler of one of the accepted requests, to its end
Serve ==
    /\ response = NoResponse
    /\ opened < MaxOpened
    /\ \E k \in 1..MaxInFlight :
        /\ in_flight[k] # NoRequest
        /\ \E o \in HandlerOutcomes(in_flight[k]) :
            /\ response' = o.response
            /\ db_service' = o.svc
            /\ opened' = o.opened
            /\ parquet_file' = o.file
            /\ ops' = o.ops
            /\ sql_log' = o.sql
        /\ in_flight' = [in_flight EXCEPT ![k] = NoRequest]
    /\ Connects
    /\ UNCHANGED <<request, engine, limiter_vars>>

\* the database at DUCKDB_DATABASE_PATH becomes unreachable, or reachable
EngineDown ==
    /\ engine = "up"
    /\ engine' = "down"
    /\ UNCHANGED <<parquet_file, db_service, opened, request, response, ops,
                   sql_log, open_connections, in_flight, limiter_vars>>

EngineUp ==
    /\ engine = "down"
    /\ engine' = "up"
    /\ UNCHANGED <<parquet_file, db_service, opened, request, response, ops,
                   sql_log, open_connections, in_flight, limiter_vars>>

\* lifespan, after yield: every request was served, close_database_service
Shutdown ==
    /\ response = NoResponse
    /\ in_flight = NoneInFlight
    /\ db_service.exists
    /\ \E o \in {close_database_service(db_service)} :
        /\ db_service' = o.svc
        /\ open_connections' = open_connections \ o.closed
        /\ ops' = o.ops
    /\ UNCHANGED <<parquet_file, opened, request, response, sql_log, engine,
                   in_flight, limiter_vars>>

NextLifecycle ==
    \/ Accept
    \/ Serve
    \/ ReceiveResponse
    \/ EngineDown
    \/ EngineUp
    \/ Shutdown

SpecLifecycle == InitLifecycle /\ [][NextLifecycle]_vars

\* ------------------------------------------------------------------------
\* SpecConnection: calls of the methods of a DatabaseService that manage
\* its connection (tests/test_database.py), and of get_database_service and
\* close_database_service for the global one
\* ------------------------------------------------------------------------

InitConnection ==
    /\ parquet_file \in {MissingFile, CorruptFile}
    /\ db_service \in {NoService, [exists |-> TRUE, connection |-> NoConnection]}
    /\ opened = 0
    /\ open_connections = {}
    /\ request = NoRequest
    /\ response = NoResponse
    /\ ops = <<>>
    /\ sql_log = <<>>
    /\ engine \in {"up", "down"}
    /\ in_flight = NoneInFlight
    /\ LimiterAt(0)

\* db_service.get_connection(): the connection returned, or the exception
CallGetConnection ==
    /\ response = NoResponse
    /\ db_service.exists
    /\ opened < MaxOpened
    /\ \E c \in {get_connection(db_service, opened)} :
        /\ response' = [kind |-> "connection", status |-> 0, raised |-> c.raised,
                        held |-> db_service.connection,
                        connection |-> c.svc.connection]
        /\ db_service' = c.svc
        /\ opened' = c.opened
        /\ ops' = c.ops
    /\ Connects
    /\ UNCHANGED <<parquet_file, request, sql_log, engine, in_flight, limiter_vars>>

\* db_service.close_connection()
CallCloseConnection ==
    /\ response = NoResponse
    /\ db_service.exists
    /\ \E c \in {close_connection(db_service)} :
        /\ response' = [kind |-> "closed", status |-> 0,
                        held |-> db_service.connection]
        /\ db_service' = c.svc
        /\ open_connections' = open_connections \ c.closed
        /\ ops' = c.ops
    /\ UNCHANGED <<parquet_file, opened, request, sql_log, engine, in_flight,
                   limiter_vars>>

\* db_service.initialize_sample_data()
CallInitializeSampleData ==
    /\ response = NoResponse
    /\ db_service.exists
    /\ opened < MaxOpened
    /\ \E c \in {initialize_sample_data(db_service, opened)} :
        /\ response' = [kind |-> "initialized", status |-> 0, raised |-> c.raised]
        /\ db_service' = c.svc
        /\ opened' = c.opened
        /\ ops' = c.ops
    /\ Connects
    /\ UNCHANGED <<parquet_file, request, sql_log, engine, in_flight, limiter_vars>>

\* get_database_service()
CallGetDatabaseService ==
    /\ response = NoResponse
    /\ opened < MaxOpened
    /\ \E g \in {get_database_service(db_service, opened, parquet_file)} :
        /\ response' = [kind |-> "service", status |-> 0, raised |-> g.raised]
        /\ db_service' = g.svc
        /\ opened' = g.opened
        /\ parquet_file' = g.file
        /\ ops' = g.ops
    /\ Connects
    /\ UNCHANGED <<request, sql_log, engine, in_flight, limiter_vars>>

NextConnection ==
    \/ CallGetConnection
    \/ CallCloseConnection
    \/ CallInitializeSampleData
    \/ CallGetDatabaseService
    \/ Shutdown
    \/ ReceiveResponse
    \/ EngineDown
    \/ EngineUp

SpecConnection == InitConnection /\ [][NextConnection]_vars

\* ------------------------------------------------------------------------
\* Properties of DatabaseService.query_events (SpecService)
\* ------------------------------------------------------------------------

Returned == response.kind = "return"

\* the row satisfies every filter the call supplies
Matches(row, call) ==
    /\ IsNone(call.id_filter) \/ row.id = call.id_filter.v
    /\ IsNone(call.from_date) \/ ~DateLT(row.event_date, call.from_date.v)
    /\ IsNone(call.to_date) \/ ~DateLT(call.to_date.v, row.event_date)
    /\ IsNone(call.environment) \/ row.environment = call.environment.v

MatchingRows(table, call) == {j \in 1..Len(table) : Matches(table[j], call)}

Occurrences(seq, x) == Cardinality({i \in 1..Len(seq) : seq[i] = x})

NoFilter(call) ==
    /\ IsNone(call.id_filter) /\ IsNone(call.from_date)
    /\ IsNone(call.to_date) /\ IsNone(call.environment)

\* C1: query_events returns exactly the rows of the table that satisfy all
\* the supplied filters (id equal, event_date >= from_date, event_date <=
\* to_date, environment equal), each as often as the table holds it: no
\* matching row is missing and no other row is included; without a filter
\* it returns every row of the table.
C1_ExactRows ==
    Returned =>
        LET t == response.table
            m == MatchingRows(t, response.request)
        IN /\ ~response.raised
           /\ Len(response.data) = Cardinality(m)
           /\ \A j \in m :
                Occurrences(response.data, RowDict(t[j]))
                    = Cardinality({k \in m : t[k] = t[j]})
           /\ NoFilter(response.request) => Len(response.data) = Len(t)

\* a call with all four filters that returns some rows of the table and
\* leaves others out, one of them for its date alone
C1_Witness ==
    /\ Returned
    /\ ~IsNone(response.request.id_filter) /\ ~IsNone(response.request.from_date)
    /\ ~IsNone(response.request.to_date) /\ ~IsNone(response.request.environment)
    /\ response.request.from_date = response.request.to_date
    /\ Len(response.data) = 1
    /\ Len(response.table) = 2
    /\ response.table[1].id = response.table[2].id
    /\ response.table[1].environment = response.table[2].environment

HasMetacharacter(s) == \E i \in 1..Len(s) : s[i] \in {"'", ";", "-"}

\* C3: an id filter with SQL metacharacters is only compared with the id
\* column: every returned row has exactly that id, nothing is returned when
\* no row has it, and the events table exists afterwards with the contents
\* it had.
C3_InjectionSafe ==
    (Returned /\ ~IsNone(response.request.id_filter)
        /\ HasMetacharacter(response.request.id_filter.v)) =>
        /\ ~response.raised
        /\ \A i \in 1..Len(response.data) :
                response.data[i].id = response.request.id_filter.v
        /\ (\A j \in 1..Len(response.table) :
                response.table[j].id # response.request.id_filter.v)
            => response.data = <<>>
        /\ db_service.connection.has_table
        /\ db_service.connection.events = response.table

\* the injection id is queried on a table holding a row of id 12, the text
\* before its quote: nothing is returned and the table is left as it was
C3_Witness ==
    /\ Returned
    /\ response.request.id_filter = VStr(T_injection)
    /\ NoFilter([response.request EXCEPT !.id_filter = None])
    /\ Len(response.table) = 2
    /\ \A j \in 1..2 : response.table[j].id = T_12
    /\ response.data = <<>>
    /\ db_service.connection.events = response.table

\* C4: the returned rows are in nondecreasing order of event_date, and rows
\* of equal event_date in nondecreasing order of created_at (both as the
\* ISO text returned).
C4_Ordered ==
    Returned =>
        \A i \in 1..(Len(response.data) - 1) :
            LET a == response.data[i]
                b == response.data[i + 1]
            IN /\ StrLE(a.event_date, b.event_date)
               /\ a.event_date = b.event_date => StrLE(a.created_at, b.created_at)

\* two rows of one event_date are returned in the order of their
\* created_at, which is not the order the table holds them in
C4_Witness ==
    /\ Returned
    /\ Len(response.data) = 2
    /\ Len(response.table) = 2
    /\ response.data[1].event_date = response.data[2].event_date
    /\ response.data[1].created_at # response.data[2].created_at
    /\ response.data[1] = RowDict(response.table[2])

\* ------------------------------------------------------------------------
\* Properties of the validation of QueryPayload (SpecValidate)
\* ------------------------------------------------------------------------

Validated == response.kind = "payload"

\* s has the shape YYYY/MM/DD: ten characters, digits but for the two "/"
PaddedShape(s) ==
    /\ Len(s) = 10
    /\ s[5] = "/" /\ s[8] = "/"
    /\ \A i \in {1, 2, 3, 4, 6, 7, 9, 10} : IsDigit(s[i])

\* the numbers written at positions a..b of s
RECURSIVE NumberAt(_, _, _)
NumberAt(s, a, b) ==
    IF b < a THEN 0 ELSE 10 * NumberAt(s, a, b - 1) + DigitVal(s[b])

MonthLengths == <<31, 28, 31, 30, 31, 30, 31, 31, 30, 31, 30, 31>>

\* s has the shape YYYY/MM/DD and names a day of the calendar
WellFormed(s) ==
    /\ PaddedShape(s)
    /\ LET y == NumberAt(s, 1, 4)
           m == NumberAt(s, 6, 7)
           d == NumberAt(s, 9, 10)
       IN /\ y >= 1 /\ m \in 1..12 /\ d >= 1
          /\ d <= MonthLengths[m]
                + (IF m = 2 /\ y % 4 = 0 /\ (y % 100 # 0 \/ y % 400 = 0) THEN 1 ELSE 0)

\* the day a well-formed s names, as the number YYYYMMDD
DayNumber(s) ==
    10000 * NumberAt(s, 1, 4) + 100 * NumberAt(s, 6, 7) + NumberAt(s, 9, 10)

HasError(result, loc, msg) ==
    ~result.ok /\ \E e \in result.errors : e.loc = loc /\ e.msg = msg

GivenText(x) == IsStr(x)

\* C5: when fromDate and toDate are both well-formed dates, validation
\* fails if fromDate is the later day, with the message 'fromDate must be
\* less than or equal to toDate' reported once the fields themselves are
\* valid, and succeeds if fromDate is the earlier or the same day (the
\* other fields being valid); when one of the dates is omitted or null, no
\* range error is reported.
C5_DateRange ==
    Validated =>
        LET b == response.request
            r == response.result
        IN /\ (GivenText(b.fromDate) /\ GivenText(b.toDate)
                /\ WellFormed(b.fromDate.v) /\ WellFormed(b.toDate.v)) =>
                IF DayNumber(b.fromDate.v) > DayNumber(b.toDate.v)
                THEN /\ ~r.ok
                     /\ Field_format(b.format).ok => HasError(r, "", MsgDateRange)
                ELSE /\ r.ok <=> Field_format(b.format).ok
                     /\ \A loc \in FieldNames \cup {""} : ~HasError(r, loc, MsgDateRange)
           /\ (~GivenText(b.fromDate) \/ ~GivenText(b.toDate)) =>
                \A loc \in FieldNames \cup {""} : ~HasError(r, loc, MsgDateRange)

\* a fromDate of December, later than the toDate of February, is refused
\* with the range message
C5_Witness ==
    /\ Validated
    /\ response.request.fromDate = VStr(<<"2", "0", "2", "4", "/", "1", "2", "/", "3", "1">>)
    /\ response.request.toDate = VStr(<<"2", "0", "2", "4", "/", "0", "2", "/", "2", "9">>)
    /\ HasError(response.result, "", MsgDateRange)
    /\ Cardinality(response.result.errors) = 1

HasChar(s, c) == \E i \in 1..Len(s) : s[i] = c

\* s is empty, uses another separator than "/", has its fields in another
\* order (no 4-digit year in front), or has the shape YYYY/MM/DD without
\* naming a day of the calendar
Malformed(s) ==
    \/ s = <<>>
    \/ HasChar(s, "-")
    \/ Len(s) >= 3 /\ s[3] = "/"
    \/ PaddedShape(s) /\ ~WellFormed(s)

\* C6: a fromDate or toDate that is empty, uses another separator or
\* field order, or names a day that does not exist is refused with an error
\* whose location is that field; when both are malformed, each field has
\* its error.
C6_MalformedDates ==
    Validated =>
        \A f \in {"fromDate", "toDate"} :
            (GivenText(response.request[f]) /\ Malformed(response.request[f].v))
                => HasError(response.result, f, MsgDateFormat)

\* 2023/02/29 as fromDate and a toDate with "-" separators: two errors
C6_Witness ==
    /\ Validated
    /\ response.request.fromDate = VStr(<<"2", "0", "2", "3", "/", "0", "2", "/", "2", "9">>)
    /\ GivenText(response.request.toDate) /\ HasChar(response.request.toDate.v, "-")
    /\ response.request.format = Absent
    /\ HasError(response.result, "fromDate", MsgDateFormat)
    /\ HasError(response.result, "toDate", MsgDateFormat)
    /\ Cardinality(response.result.errors) = 2

\* C7 (as stated): every date text that validation accepts has the shape
\* YYYY/MM/DD, so a text with a one-digit month or day is refused.
C7_OnlyPaddedAccepted ==
    (Validated /\ response.result.ok) =>
        \A f \in {"fromDate", "toDate"} :
            GivenText(response.request[f]) => PaddedShape(response.request[f].v)

\* ------------------------------------------------------------------------
\* Properties of POST /api/query and POST /api/query/feather (Spec)
\* ------------------------------------------------------------------------

Served == response.kind = "http"

FilterFields == {"id", "fromDate", "toDate", "environment"}

\* the response reports a validation error located at the field f
HasFieldError(resp, f) ==
    /\ resp.status = 422
    /\ \E e \in resp.validation_errors : e.field = <<"body", f>>

\* C2: a request to /api/query or /api/query/feather whose payload fails
\* validation is answered 422 by a step that leaves the database service as
\* it was - not created, no connection opened, the data file not read or
\* written - and performs no engine operation and no SELECT.
C2_NoStorageOnInvalid ==
    [][(request.kind \in {"query", "feather"} /\ ~Validate(request.body).ok) =>
            /\ response'.status = 422
            /\ db_service' = db_service
            /\ opened' = opened
            /\ parquet_file' = parquet_file
            /\ ops' = <<>>
            /\ sql_log' = <<>>]_vars

\* a fromDate later than toDate was answered 422 with the range message,
\* and the database service still does not exist
C2_Witness ==
    /\ Served
    /\ response.status = 422
    /\ response.request.fromDate = VStr(T_day2)
    /\ response.request.toDate = VStr(T_day1)
    /\ \E e \in response.validation_errors :
            e.field = <<"body">> /\ e.message = MsgDateRange
    /\ ~db_service.exists
    /\ opened = 0
    /\ ops = <<>>

\* C8 (as stated): a payload whose id is the empty string is refused by
\* validation.
C8_EmptyIdRejected ==
    (Served /\ response.request.id = VStr(<<>>)) => response.status = 422

\* the condition of the WHERE clause that the filter field f adds
ClauseOf(f) ==
    CASE f = "id"          -> [col |-> "id", op |-> "="]
      [] f = "fromDate"    -> [col |-> "event_date", op |-> ">="]
      [] f = "toDate"      -> [col |-> "event_date", op |-> "<="]
      [] f = "environment" -> [col |-> "environment", op |-> "="]

HasClause(where, f) ==
    \E i \in 1..Len(where) :
        where[i].col = ClauseOf(f).col /\ where[i].op = ClauseOf(f).op

\* the value echoed for the filter field f in a json or feature body
Echo(resp, f) ==
    IF resp.format = "json" THEN resp.query_info[f]
    ELSE resp.metadata.query_parameters[f]

IsDecimalOf(t, n) ==
    LET digits == IF t # <<>> /\ t[1] = "-" THEN Tail(t) ELSE t
    IN /\ digits # <<>>
       /\ \A i \in 1..Len(digits) : IsDigit(digits[i])
       /\ Len(digits) > 1 => digits[1] # "0"
       /\ (t # <<>> /\ t[1] = "-") <=> (n < 0)
       /\ NumberAt(digits, 1, Len(digits)) = (IF n < 0 THEN -n ELSE n)

DecimalTexts == {T_12, T_m3, <<"0", "1", "2">>, <<"3">>, <<"-", "1", "2">>}

DecimalText(n) == CHOOSE t \in DecimalTexts : IsDecimalOf(t, n)

\* the ids of the rows a 200 response carries
ResponseIds(resp) ==
    CASE resp.format = "json"    -> {resp.data[i].id : i \in 1..Len(resp.data)}
      [] resp.format = "feature" -> {resp.features[i].id : i \in 1..Len(resp.features)}
      [] resp.format = "feather" -> {resp.content.columns.id[i] : i \in 1..resp.content.num_rows}

\* C10: a request whose id is the integer n is not refused for its id;
\* its 200 response is one the same request with the decimal text of n as
\* id gets on the same table, its rows all have that text as id, and a json
\* body echoes that text as query_info.id.
C10_IntegerId ==
    (Served /\ IsInt(response.request.id)) =>
        LET b == response.request
            t == DecimalText(b.id.v)
            b_text == [b EXCEPT !.id = VStr(t)]
            text_responses ==
                {o.response :
                    o \in (IF response.format = "feather"
                           THEN query_data_feather(b_text, db_service, opened, parquet_file)
                           ELSE query_data(b_text, db_service, opened, parquet_file))}
        IN /\ ~HasFieldError(response, "id")
           /\ response.status = 200 =>
                /\ [response EXCEPT !.request = b_text] \in text_responses
                /\ ResponseIds(response) \subseteq {t}
                /\ HasClause(sql_log[1], "id")
                /\ response.format = "json" => response.query_info.id = VStr(t)

\* the id 12 sent as a number returns the one row of id "12" of a table of
\* two rows and echoes "12"
C10_Witness ==
    /\ Served
    /\ response.request.id = VInt(12)
    /\ response.status = 200
    /\ response.format = "json"
    /\ response.query_info.id = VStr(T_12)
    /\ Len(db_service.connection.events) = 2
    /\ Len(response.data) = 1
    /\ response.data[1].id = T_12

\* the responses query_data may give to the body in the state
Answers(body, svc, n, file) == {o.response : o \in query_data(body, svc, n, file)}

\* C11: no request changes the events table or anything else a later
\* result depends on: once the database service exists, every step leaves
\* the service, its connection and table, and the data file as they are,
\* and a query answered 200 leaves a state in which the same query gets the
\* same answer (same rows, same count).
C11_Idempotent ==
    [][/\ db_service.exists =>
            /\ db_service' = db_service
            /\ opened' = opened
            /\ parquet_file' = parquet_file
       /\ (request.kind = "query" /\ response'.status = 200) =>
            response' \in Answers(request.body, db_service', opened', parquet_file')]_vars

\* a query answered with rows by a service that an earlier request had
\* created (this request opened no connection and created no table)
C11_Witness ==
    /\ Served
    /\ response.status = 200
    /\ response.format = "json"
    /\ Len(response.data) = 2
    /\ ops = <<"select">>
    /\ opened = 1

\* a column value as ISO-8601 text where it is a date or a timestamp
Normalised(col, v) ==
    IF col = "event_date" THEN IsoFormat(v)
    ELSE IF col = "created_at" THEN IsoTimestamp(v)
    ELSE v

\* the rows of a feather block, column values normalised
NormalisedRows(feather) ==
    [i \in 1..feather.num_rows |->
        [c \in ColumnSet |-> Normalised(c, feather.columns[c][i])]]

\* C12: the block returned by /api/query/feather holds the columns of
\* events, and its rows, with dates and timestamps as ISO text, are the rows
\* /api/query returns in json mode for the same filters on the same table:
\* as many, in the same order, equal column for column.
C12_FeatherAgreesWithJson ==
    (Served /\ response.status = 200 /\ response.format = "feather") =>
        /\ DOMAIN response.content.columns = ColumnSet
        /\ \E a \in Answers([response.request EXCEPT !.format = Absent],
                           db_service, opened, parquet_file) :
            /\ a.status = 200
            /\ a.format = "json"
            /\ a.count = response.content.num_rows
            /\ a.data = NormalisedRows(response.content)

\* a feather request with an id and an environment returns one of the two
\* rows of the table
C12_Witness ==
    /\ Served
    /\ response.status = 200
    /\ response.format = "feather"
    /\ response.request.id = VStr(T_12)
    /\ response.request.environment = VStr(T_production)
    /\ response.content.num_rows = 1
    /\ Len(db_service.connection.events) = 2
    /\ \A i \in 1..2 : db_service.connection.events[i].id = T_12

\* the request asks for json: no format, or the format "json"
JsonMode(b) == b.format \in {Absent, VStr(Text_json)}

\* what a response echoes for a supplied field value: null for an omitted
\* or null field, an integer id as its decimal text, else the value
Supplied(x) == x \notin {Absent, None}

EchoOf(x) ==
    IF ~Supplied(x) THEN None
    ELSE IF IsInt(x) THEN VStr(DecimalText(x.v))
    ELSE x

\* C13: a valid request to /api/query in json mode is answered 200 with
\* count = the length of data (0 and an empty list when nothing matches),
\* query_info echoes id (as text, or null), fromDate, toDate and environment
\* as supplied, and date_range_parsed is in query_info exactly when
\* fromDate or toDate was supplied.
C13_JsonResponse ==
    (Served /\ Validate(response.request).ok /\ JsonMode(response.request)) =>
        /\ response.status = 200
        /\ response.format \in {"json", "feather"}
        /\ response.format = "json" =>
            /\ response.count = Len(response.data)
            /\ \A f \in FilterFields :
                    response.query_info[f] = EchoOf(response.request[f])
            /\ response.query_info.date_range_parsed.present
                <=> (Supplied(response.request.fromDate)
                        \/ Supplied(response.request.toDate))
            /\ Supplied(response.request.fromDate)
                <=> response.query_info.date_range_parsed.from # None
            /\ Supplied(response.request.toDate)
                <=> response.query_info.date_range_parsed.to # None

\* a json request for an id with a date range that no row of a table of
\* two rows of that id matches: 200, no data, count 0
C13_Witness ==
    /\ Served
    /\ response.status = 200
    /\ response.format = "json"
    /\ response.request.format = VStr(Text_json)
    /\ response.request.id = VStr(T_12)
    /\ response.request.fromDate = VStr(T_day2)
    /\ response.request.toDate = Absent
    /\ response.data = <<>>
    /\ response.count = 0
    /\ response.query_info.date_range_parsed.present
    /\ Len(db_service.connection.events) = 2
    /\ \A i \in 1..2 : db_service.connection.events[i].id = T_12

\* the feature record the claim describes for a returned row
IsFeatureOf(feature, row) ==
    /\ feature.type = "Feature"
    /\ feature.id = row.id
    /\ feature.geometry = None
    /\ DOMAIN feature.properties = ColumnSet \ {"id"}
    /\ \A c \in ColumnSet \ {"id"} : feature.properties[c] = row[c]

\* C14: a valid request with format 'feature' is answered 200 with one
\* feature per row the query returns (the rows json mode returns for the
\* same filters), in the same order, each of type 'Feature' with the row's
\* id, a null geometry and the row's other columns as properties; count is
\* the number of features; with an environment filter every
\* properties.environment is the filter value.
C14_FeatureResponse ==
    (Served /\ Validate(response.request).ok
        /\ response.request.format = VStr(Text_feature)) =>
        /\ response.status = 200
        /\ response.format \in {"feature", "feather"}
        /\ response.format = "feature" =>
            /\ response.count = Len(response.features)
            /\ \E a \in Answers([response.request EXCEPT !.format = Absent],
                               db_service, opened, parquet_file) :
                /\ a.status = 200
                /\ Len(a.data) = Len(response.features)
                /\ \A i \in 1..Len(a.data) :
                        IsFeatureOf(response.features[i], a.data[i])
            /\ Supplied(response.request.environment) =>
                \A i \in 1..Len(response.features) :
                    response.features[i].properties.environment
                        = response.request.environment.v

\* the scenario of the specification: environment production in feature
\* format, on a table with a production row and a staging row
C14_Witness ==
    /\ Served
    /\ response.status = 200
    /\ response.format = "feature"
    /\ response.request.environment = VStr(T_production)
    /\ response.request.id = Absent
    /\ Len(response.features) = 1
    /\ response.count = 1
    /\ response.features[1].properties.environment = T_production
    /\ response.features[1].geometry = None
    /\ Len(db_service.connection.events) = 2

\* the text of a supplied field value in a filename: a date with "/"
\* replaced by "_", an integer id as its decimal text
NamePart(prefix, x, isDate) ==
    IF ~Supplied(x) THEN <<>>
    ELSE <<prefix \o (IF IsInt(x) THEN DecimalText(x.v)
                      ELSE IF isDate
                           THEN [i \in 1..Len(x.v) |->
                                    IF x.v[i] = "/" THEN "_" ELSE x.v[i]]
                      ELSE x.v)>>

\* the parts for the supplied filters, in the order id, fromDate, toDate,
\* environment
NameParts(b) ==
    NamePart(<<"i", "d", "_">>, b.id, FALSE)
    \o NamePart(<<"f", "r", "o", "m", "_">>, b.fromDate, TRUE)
    \o NamePart(<<"t", "o", "_">>, b.toDate, TRUE)
    \o NamePart(<<"e", "n", "v", "_">>, b.environment, FALSE)

RECURSIVE Joined(_)
Joined(parts) ==
    IF Len(parts) = 0 THEN <<>>
    ELSE IF Len(parts) = 1 THEN parts[1]
    ELSE Joined(SubSeq(parts, 1, Len(parts) - 1)) \o <<"_">> \o parts[Len(parts)]

\* C15 (as stated): the feather response is an attachment of content type
\* application/octet-stream whose filename has the parts id_, from_, to_
\* and env_ of exactly the supplied filters, in that order and joined by
\* "_", and the name 'data' when no filter is supplied.
C15_FilenameFromFilters ==
    (Served /\ response.status = 200 /\ response.format = "feather") =>
        /\ response.media_type = "application/octet-stream"
        /\ response.disposition = "attachment"
        /\ response.filename =
            <<"q", "u", "e", "r", "y", "_", "r", "e", "s", "u", "l", "t", "s", "_">>
            \o (IF NameParts(response.request) = <<>>
                THEN <<"d", "a", "t", "a">>
                ELSE Joined(NameParts(response.request)))
            \o <<".", "f", "e", "a", "t", "h", "e", "r">>

\* ------------------------------------------------------------------------
\* Properties of the error responses (SpecFaults)
\* ------------------------------------------------------------------------

\* the field an entry of validation_errors names for the validation error v
EntryField(v) ==
    <<"body">> \o (IF v.loc = "" THEN <<>> ELSE <<v.loc>>)
               \o (IF v.branch = "" THEN <<>> ELSE <<v.branch>>)

\* C16: every request to /api/query or /api/query/feather whose body fails
\* the validation of the payload - a malformed date, fromDate after toDate,
\* a format outside json and feature, a body that is no JSON, a body of a
\* content type other than JSON - is answered 422 with a body that holds a
\* list validation_errors of entries (field, message, type), one entry for
\* each validation error and no other; a body that is no JSON object has
\* exactly one entry.
C16_ValidationFailure ==
    (Served /\ ~Validate(response.request).ok) =>
        /\ response.status = 422
        /\ "validation_errors" \in DOMAIN response.body
        /\ LET es == response.body.validation_errors
               vs == Validate(response.request).errors
           IN /\ \A e \in es : DOMAIN e = {"field", "message", "type"}
              /\ Cardinality(es) = Cardinality(vs)
              /\ \A v \in vs : \E e \in es :
                    /\ e.field = EntryField(v)
                    /\ e.message = v.msg
                    /\ e.type = v.type
              /\ IsRawBody(response.request) => Cardinality(es) = 1

\* a body with two malformed dates and the format csv was answered 422 with
\* three entries, one located at each of the three fields
C16_Witness ==
    /\ Served
    /\ response.status = 422
    /\ ~IsRawBody(response.request)
    /\ response.request.fromDate = VStr(T_day_dash)
    /\ response.request.toDate = VStr(T_day_dash)
    /\ response.request.format = VStr(T_csv)
    /\ response.request.id = Absent
    /\ Cardinality(response.body.validation_errors) = 3
    /\ \A f \in {"fromDate", "toDate", "format"} :
            \E e \in response.body.validation_errors : e.field = <<"body", f>>

\* the request names an id that is neither a string nor an integer nor
\* null, or its body is no JSON object
UncoercibleId(body) ==
    ~IsRawBody(body) /\ body.id.t \notin {"absent", "none", "str", "int"}

InputErrorCase(body) == IsRawBody(body) \/ UncoercibleId(body)

\* C17, as the specification states it: a request whose id cannot be
\* coerced to a string or an integer, or whose body is malformed, is
\* answered with status 400.
C17_InputError400 ==
    (Served /\ InputErrorCase(response.request)) => response.status = 400

\* C17, amended: a request whose id cannot be coerced to a string or an
\* integer, or whose body is malformed, is answered with status 422, with
\* an entry of validation_errors located at the id, or at the body.
C17_InputError422 ==
    (Served /\ InputErrorCase(response.request)) =>
        /\ response.status = 422
        /\ \E e \in response.body.validation_errors :
              IF UncoercibleId(response.request)
              THEN SubSeq(e.field, 1, 2) = <<"body", "id">>
              ELSE e.field[1] = "body" /\ Len(e.field) <= 2

\* a body whose id is a JSON array was answered 422, with one entry for
\* each member of the union the id failed
C17_Witness ==
    /\ Served
    /\ UncoercibleId(response.request)
    /\ response.status = 422
    /\ {e.field : e \in response.body.validation_errors}
          = {<<"body", "id", "str">>, <<"body", "id", "int">>}

\* the request was served by a handler whose SELECT the storage engine
\* refused
StorageFailed ==
    /\ Served
    /\ db_service.exists
    /\ Len(sql_log) = 1
    /\ SelectRaises(db_service.connection, sql_log[1])

\* the JSON object that describes the error: the body, or what it holds
\* under "detail" when the response was raised as HTTPException
ErrorObject(body) == IF "detail" \in DOMAIN body THEN body.detail ELSE body

GenericMessages ==
    {"An unexpected error occurred",
     "An unexpected error occurred while processing the request",
     "An unexpected error occurred while processing the Feather request"}

\* the SELECT ran once and the answer is 500 with a generic message
C18_Once500 ==
    StorageFailed =>
        /\ Occurrences(ops, "select") = 1
        /\ response.status = 500
        /\ ErrorObject(response.body).error = "Internal server error"
        /\ ErrorObject(response.body).details \in GenericMessages

EngineMessages == {Msg_CatalogError, Msg_BinderError}

\* the texts an error body holds: those of the fields error, details and
\* message of the body, or of the object under "detail"
TextFields == {"error", "details", "message"}

TextsOf(body) ==
    {ErrorObject(body)[k] : k \in DOMAIN ErrorObject(body) \cap TextFields}

Answered == response.kind \in {"http", "get"}

ClassificationFields == {"status_code", "status", "type", "error_type", "validation_errors"}

ErrorAnswered == Answered /\ response.status >= 400

ServeStep == response = NoResponse /\ response' # NoResponse

HealthAnswered == response.kind = "get" /\ response.endpoint = "health"

\* the database service exists and a statement on its events table that
\* names id and event_date can be answered
TableReadable(svc) ==
    /\ svc.exists
    /\ svc.connection.open
    /\ svc.connection.has_table
    /\ {"id", "event_date"} \subseteq svc.connection.columns

\* C21: GET /api/health never fails the request. It answers 200 with
\* status healthy, connected true, the row count and the ids when the
\* database service was obtained and its events table can be read, and 503
\* with status unhealthy in every other case, the failure to create or to
\* initialise the database service included.
C21_HealthNeverFails ==
    HealthAnswered =>
        IF TableReadable(db_service)
        THEN /\ response.status = 200
             /\ response.body.status = "healthy"
             /\ response.body.database.connected = TRUE
             /\ response.body.database.row_count = Len(db_service.connection.events)
             /\ {response.body.database.available_ids[i] :
                    i \in DOMAIN response.body.database.available_ids}
                  = {db_service.connection.events[i].id :
                        i \in DOMAIN db_service.connection.events}
        ELSE /\ response.status = 503
             /\ response.body.status = "unhealthy"

\* the health check was answered 503 because the database service could
\* not be initialised: the engine could not be reached
C21_Witness ==
    /\ HealthAnswered
    /\ response.status = 503
    /\ db_service.exists
    /\ ~db_service.connection.open
    /\ ops = <<"connect", "connect">>

\* the engine operations of a log
OpsOf(log) == {log[i] : i \in 1..Len(log)}

\* C23: when several requests were accepted while no global service
\* existed, the service is constructed and its events table initialised
\* once: a handler that finds the service neither constructs another nor
\* creates the table again, and the connection that is held stays the one
\* every later request uses.
C23_InitialisedOnce ==
    [][(ServeStep /\ db_service.exists) =>
            /\ db_service'.exists
            /\ "create_table" \notin OpsOf(ops')
            /\ "insert" \notin OpsOf(ops')
            /\ db_service.connection.open =>
                  /\ db_service'.connection.open
                  /\ db_service'.connection.id = db_service.connection.id
                  /\ opened' = opened]_vars

\* the request that was served first found no service and initialised it
\* while another request, accepted before, still waits
C23_Witness ==
    /\ Answered
    /\ response.status = 200
    /\ "create_table" \in OpsOf(ops)
    /\ db_service.exists
    /\ db_service.connection.open
    /\ \E k \in 1..MaxInFlight : in_flight[k] # NoRequest

\* C25: get_database_service never returns a service whose events table
\* has not been created, on any call: in every state, a call that returns
\* returns a service whose connection holds the table events.
C25_ReturnsInitialised ==
    \A g \in {get_database_service(db_service, opened, parquet_file)} :
        ~g.raised => g.svc.connection.has_table

\* ------------------------------------------------------------------------
\* Properties of the connection of a DatabaseService (SpecConnection)
\* ------------------------------------------------------------------------

\* the connections that are open are the one the service holds, if any
OneConnection ==
    /\ Cardinality(open_connections) <= 1
    /\ open_connections =
          IF db_service.connection.open THEN {db_service.connection.id} ELSE {}

\* C22: a DatabaseService holds at most one open connection at any time.
\* get_connection opens a connection only when none is held and otherwise
\* returns the held one; close_connection closes it and leaves none held;
\* the get_connection after a close opens a connection that was never open
\* before; close_database_service closes the connection of the global
\* service and leaves no service.
C22_OneConnection ==
    [][/\ OneConnection
       /\ OneConnection'
       /\ (ServeStep /\ response'.kind = "connection" /\ ~response'.raised) =>
            /\ db_service'.connection.open
            /\ response'.connection = db_service'.connection
            /\ IF db_service.connection.open
               THEN db_service'.connection = db_service.connection /\ opened' = opened
               ELSE /\ db_service'.connection.id > opened
                    /\ opened' = opened + 1
       /\ (ServeStep /\ response'.kind = "closed") =>
            /\ ~db_service'.connection.open
            /\ open_connections' = {}
       /\ (db_service.exists /\ ~db_service'.exists) =>
            /\ open_connections' = {}
            /\ ~db_service'.connection.open]_vars

\* get_connection after a close returned a connection that was not open
\* before: the second connection of the process
C22_Witness ==
    /\ response.kind = "connection"
    /\ ~response.raised
    /\ ~response.held.open
    /\ response.connection.id = 2
    /\ open_connections = {2}

\* ------------------------------------------------------------------------
\* Properties of the initialisation and of the table information (Spec)
\* ------------------------------------------------------------------------

\* the request initialised the service on the fallback path: the sample
\* data was loaded by initialize_from_parquet and again by
\* get_database_service
FellBack == Occurrences(ops, "insert") = 2

\* C26: when get_database_service falls back because the Parquet file
\* could not be loaded, the events table holds exactly the 12 sample rows,
\* each once, although initialize_sample_data ran twice.
C26_SampleRowsOnce ==
    FellBack =>
        /\ db_service.connection.has_table
        /\ Len(db_service.connection.events) = 12
        /\ Len(SampleData) = 12
        /\ \A i \in 1..Len(SampleData) :
              Occurrences(db_service.connection.events, SampleData[i]) = 1

\* a request was served by a service initialised on the fallback path, from
\* a Parquet file that cannot be read
C26_Witness ==
    /\ FellBack
    /\ parquet_file = CorruptFile
    /\ response.status = 200
    /\ Len(db_service.connection.events) = 12

\* the part of the filename that stands for a condition of the query
PartPrefix(cond) ==
    IF cond.col = "id" THEN <<"i", "d", "_">>
    ELSE IF cond.col = "environment" THEN <<"e", "n", "v", "_">>
    ELSE IF cond.op = ">=" THEN <<"f", "r", "o", "m", "_">>
    ELSE <<"t", "o", "_">>

GenericFilename ==
    <<"q", "u", "e", "r", "y", "_", "r", "e", "s", "u", "l", "t", "s", "_",
      "d", "a", "t", "a", ".", "f", "e", "a", "t", "h", "e", "r">>

FeatherServed ==
    Served /\ response.status = 200 /\ response.format = "feather" /\ Len(sql_log) = 1

\* C27: the filename of the feather attachment is the generic
\* query_results_data.feather if and only if the query that was executed
\* has no condition; for every condition of the query (id, fromDate, toDate,
\* environment, an empty environment included) the filename holds the
\* part of that filter.
C27_GenericIffNoPredicate ==
    FeatherServed =>
        /\ (response.filename = GenericFilename) <=> (sql_log[1] = <<>>)
        /\ \A i \in 1..Len(sql_log[1]) :
              HasInfix(response.filename, PartPrefix(sql_log[1][i]))

TableInfoAnswered == response.kind = "get" /\ response.status = 200

ReportedCount ==
    IF response.endpoint = "health" THEN response.body.database.row_count
    ELSE response.body.database_info.row_count

ReportedIds ==
    IF response.endpoint = "health" THEN response.body.database.available_ids
    ELSE response.body.database_info.unique_ids

\* the answers POST /api/query would give to the body {} now
UnfilteredAnswers ==
    {o.response : o \in query_data(EmptyBody, db_service, opened, parquet_file)}

IsSmallest(text, data) ==
    /\ \E i \in 1..Len(data) : data[i].event_date = text
    /\ \A i \in 1..Len(data) : StrLE(text, data[i].event_date)

IsLargest(text, data) ==
    /\ \E i \in 1..Len(data) : data[i].event_date = text
    /\ \A i \in 1..Len(data) : StrLE(data[i].event_date, text)

DateRangeOf(range, data) ==
    IF data = <<>>
    THEN range.min = None /\ range.max = None
    ELSE /\ range.min # None /\ IsSmallest(range.min.v, data)
         /\ range.max # None /\ IsLargest(range.max.v, data)

\* C30: the table information of GET /api/health and GET /api/info agrees
\* with the unfiltered query: row_count is the count of POST /api/query
\* with {}, the ids are the distinct ids of its rows, each once and in
\* ascending order, and date_range holds the smallest and the largest
\* event_date of its rows (both null, with row_count 0, for an empty table).
C30_TableInfoConsistent ==
    TableInfoAnswered =>
        \A q \in UnfilteredAnswers :
            /\ q.status = 200
            /\ q.count = ReportedCount
            /\ {ReportedIds[i] : i \in 1..Len(ReportedIds)}
                   = {q.data[i].id : i \in 1..Len(q.data)}
            /\ \A i, j \in 1..Len(ReportedIds) :
                  i < j => /\ ReportedIds[i] # ReportedIds[j]
                           /\ StrLE(ReportedIds[i], ReportedIds[j])
            /\ response.endpoint = "info" =>
                  /\ DateRangeOf(response.body.database_info.date_range, q.data)
                  /\ (q.data = <<>>) <=> (ReportedCount = 0)

\* /api/info answered for a table of two rows with different ids and dates
C30_Witness ==
    /\ TableInfoAnswered
    /\ response.endpoint = "info"
    /\ Len(ReportedIds) = 2
    /\ response.body.database_info.date_range.min
           # response.body.database_info.date_range.max

\* /api/info answered for the empty table
C30_WitnessEmpty ==
    /\ TableInfoAnswered
    /\ response.endpoint = "info"
    /\ ReportedCount = 0

\* ------------------------------------------------------------------------
\* POST /api/log-client-error (SpecLimiter)
\* ------------------------------------------------------------------------

\* the length of a bucket and of the global window, in seconds
RATE_LIMIT_WINDOW == 60

\* the cap of one client in one bucket, and the cap of all clients in one
\* global window (20 and 200 in error_logging.py; here in the same order,
\* at a size whose states can be enumerated)
RATE_LIMIT_MAX_ERRORS == 2

RATE_LIMIT_MAX_ERRORS_GLOBAL == 3

SecondsPerDay == 86400

\* timedelta.seconds of the difference t - since of two datetimes: the
\* seconds within the last day of the difference, its whole days left out
TimedeltaSeconds(t, since) == (t - since) % SecondsPerDay

\* a dict as the set of its items
DictKeys(d) == {e.key : e \in d}

DictGet(d, k, default) ==
    IF k \in DictKeys(d) THEN (CHOOSE e \in d : e.key = k).value ELSE default

DictDel(d, keys) == {e \in d : e.key \notin keys}

DictSet(d, k, v) == DictDel(d, {k}) \cup {[key |-> k, value |-> v]}

\* int(k) for the decimal text k
StrToInt(k) == NumberAt(k, 1, Len(k))

\* the key of the bucket of the time t: str(int(now.timestamp() // 60))
BucketKey(t) == NatToStr(t \div RATE_LIMIT_WINDOW)

\* a variant that compares with > : one report more than the cap passes
is_rate_limited_offByOne(client_id, counts, global, t) ==
    LET current_minute == t \div RATE_LIMIT_WINDOW
        client_data == counts[client_id]
        old_keys == {k \in DictKeys(client_data) : StrToInt(k) < current_minute - 1}
        cleaned == [counts EXCEPT ![client_id] = DictDel(client_data, old_keys)]
        current_count == DictGet(cleaned[client_id], BucketKey(t), 0)
        window == IF TimedeltaSeconds(t, global.window_start) >= RATE_LIMIT_WINDOW
                  THEN [count |-> 0, window_start |-> t]
                  ELSE global
    IN IF current_count > RATE_LIMIT_MAX_ERRORS
       THEN [limited |-> TRUE, counts |-> cleaned, global |-> global]
       ELSE IF window.count > RATE_LIMIT_MAX_ERRORS_GLOBAL
       THEN [limited |-> TRUE, counts |-> cleaned, global |-> window]
       ELSE [limited |-> FALSE,
             counts |-> [cleaned EXCEPT
                            ![client_id] = DictSet(@, BucketKey(t), current_count + 1)],
             global |-> [window EXCEPT !.count = @ + 1]]

\* a variant that counts the report for the client before the global check
is_rate_limited_countFirst(client_id, counts, global, t) ==
    LET current_minute == t \div RATE_LIMIT_WINDOW
        client_data == counts[client_id]
        old_keys == {k \in DictKeys(client_data) : StrToInt(k) < current_minute - 1}
        cleaned == [counts EXCEPT ![client_id] = DictDel(client_data, old_keys)]
        current_count == DictGet(cleaned[client_id], BucketKey(t), 0)
        counted == [cleaned EXCEPT
                       ![client_id] = DictSet(@, BucketKey(t), current_count + 1)]
        window == IF TimedeltaSeconds(t, global.window_start) >= RATE_LIMIT_WINDOW
                  THEN [count |-> 0, window_start |-> t]
                  ELSE global
    IN IF current_count >= RATE_LIMIT_MAX_ERRORS
       THEN [limited |-> TRUE, counts |-> cleaned, global |-> global]
       ELSE IF window.count >= RATE_LIMIT_MAX_ERRORS_GLOBAL
       THEN [limited |-> TRUE, counts |-> counted, global |-> window]
       ELSE [limited |-> FALSE, counts |-> counted,
             global |-> [window EXCEPT !.count = @ + 1]]

\* is_rate_limited at the time t: the keys older than the previous bucket
\* are deleted, the client's count of the current bucket is compared with
\* its cap, the global window starts again when timedelta.seconds says
\* that RATE_LIMIT_WINDOW seconds passed, the global count is compared with
\* its cap, and both counts are incremented when the report passes
is_rate_limited(client_id, counts, global, t) ==
    LET current_minute == t \div RATE_LIMIT_WINDOW
        client_data == counts[client_id]
        old_keys == {k \in DictKeys(client_data) : StrToInt(k) < current_minute - 1}
        cleaned == [counts EXCEPT ![client_id] = DictDel(client_data, old_keys)]
        current_count == DictGet(cleaned[client_id], BucketKey(t), 0)
        window == IF TimedeltaSeconds(t, global.window_start) >= RATE_LIMIT_WINDOW
                  THEN [count |-> 0, window_start |-> t]
                  ELSE global
    IN IF current_count >= RATE_LIMIT_MAX_ERRORS
       THEN [limited |-> TRUE, counts |-> cleaned, global |-> global]
       ELSE IF window.count >= RATE_LIMIT_MAX_ERRORS_GLOBAL
       THEN [limited |-> TRUE, counts |-> cleaned, global |-> window]
       ELSE [limited |-> FALSE,
             counts |-> [cleaned EXCEPT
                            ![client_id] = DictSet(@, BucketKey(t), current_count + 1)],
             global |-> [window EXCEPT !.count = @ + 1]]

\* the patterns of ERROR_CLASSIFICATION_PATTERNS found in the message and
\* the stack of a report are given with the report (found), as are the
\* keywords found in its message (keywords)
classify_error(error_payload) == {error_payload.type} \cup error_payload.found

should_forward_to_claude(error_payload, classifications) ==
    \/ "excel_error" \in classifications
    \/ /\ "api_error" \in classifications
       /\ error_payload.keywords
              \cap {"timeout", "500", "502", "503", "connection refused"} # {}
    \/ /\ "validation_error" \in classifications
       /\ error_payload.keywords \cap {"format", "required", "invalid"} # {}
    \/ /\ "javascript_error" \in classifications
       /\ error_payload.keywords \cap {"referenceerror", "typeerror"} # {}

\* log_client_error for the report error_payload of the client client_id:
\* 429 when is_rate_limited says so, otherwise the persist task, the
\* forwarding task when should_forward_to_claude, and the accepted answer
log_client_error(client_id, error_payload, counts, global, t) ==
    {[response |->
        IF r.limited
        THEN [kind |-> "http", endpoint |-> "log-client-error", status |-> 429,
              request |-> [client |-> client_id, report |-> error_payload],
              body |-> [detail |-> "Rate limit exceeded. Too many errors reported."],
              tasks |-> <<>>]
        ELSE [kind |-> "http", endpoint |-> "log-client-error", status |-> 200,
              request |-> [client |-> client_id, report |-> error_payload],
              body |-> [status |-> "accepted", errorId |-> error_payload.errorId,
                        message |-> "Error logged successfully"],
              tasks |-> <<"persist_error">> \o
                        (IF should_forward_to_claude(error_payload,
                                                     classify_error(error_payload))
                         THEN <<"forward_to_claude_analysis">> ELSE <<>>)],
      counts |-> r.counts, global |-> r.global] :
        r \in {is_rate_limited(client_id, counts, global, t)}}

\* the reports sent: one that is forwarded and one that is only persisted
Reports ==
    {[type |-> "api_error", errorId |-> "e1", found |-> {"api_error"},
      keywords |-> {"timeout"}],
     [type |-> "javascript_error", errorId |-> "e2", found |-> {},
      keywords |-> {}]}

\* the steps of the clock
Durations == {30, RATE_LIMIT_WINDOW, SecondsPerDay}

\* the times the module is imported at: the start and the middle of a bucket
StartTimes == {0, 30}

\* the clock is followed over the first MaxMinutes minutes of the day of
\* the import and of each of the MaxDays days after it
MaxDays == 1

MaxMinutes == 3

Followed(t) ==
    /\ t \div SecondsPerDay <= MaxDays
    /\ t % SecondsPerDay <= MaxMinutes * RATE_LIMIT_WINDOW

InitLimiter ==
    /\ parquet_file = MissingFile
    /\ db_service = NoService
    /\ opened = 0
    /\ open_connections = {}
    /\ request = NoRequest
    /\ response = NoResponse
    /\ ops = <<>>
    /\ sql_log = <<>>
    /\ engine = "up"
    /\ in_flight = NoneInFlight
    /\ \E t \in StartTimes : LimiterAt(t)

\* the reports accepted, with one more of the client c at the time t in
\* the global window that started at w: counted by client and bucket and
\* by window, the counts of past buckets and past windows dropped
CountAccepted(log, c, t, w) ==
    [in_bucket |->
        {e \in DictSet(log.in_bucket, <<c, t \div RATE_LIMIT_WINDOW>>,
                       DictGet(log.in_bucket, <<c, t \div RATE_LIMIT_WINDOW>>, 0) + 1) :
            e.key[2] = t \div RATE_LIMIT_WINDOW},
     in_window |->
        {e \in DictSet(log.in_window, w, DictGet(log.in_window, w, 0) + 1) :
            e.key = w}]

\* POST /api/log-client-error
LogClientError ==
    /\ response = NoResponse
    /\ \E c \in Clients, p \in Reports :
        \E o \in log_client_error(c, p, client_error_counts, global_error_count, now) :
            /\ response' = o.response
            /\ client_error_counts' = o.counts
            /\ global_error_count' = o.global
            /\ accepted_reports' =
                  IF o.response.status = 200
                  THEN CountAccepted(accepted_reports, c, now,
                                     o.global.window_start)
                  ELSE accepted_reports
    /\ UNCHANGED <<parquet_file, db_service, opened, request, ops, sql_log,
                   engine, open_connections, in_flight, now>>

\* time passes
Tick ==
    /\ \E d \in Durations :
        /\ Followed(now + d)
        /\ now' = now + d
    /\ UNCHANGED <<parquet_file, db_service, opened, request, response, ops, sql_log,
                   engine, open_connections, in_flight, client_error_counts,
                   global_error_count, accepted_reports>>

NextLimiter ==
    \/ LogClientError
    \/ Tick
    \/ ReceiveResponse

SpecLimiter == InitLimiter /\ [][NextLimiter]_vars

\* ------------------------------------------------------------------------
\* Properties of the error report limiter (SpecLimiter)
\* ------------------------------------------------------------------------

LogAnswered == response.kind = "http" /\ response.endpoint = "log-client-error"

\* the number of reports of the client c accepted in the bucket b
AcceptedInBucket(c, b) == DictGet(accepted_reports.in_bucket, <<c, b>>, 0)

\* the number of reports accepted in the global window that started at w
AcceptedInWindow(w) == DictGet(accepted_reports.in_window, w, 0)

\* C24: the reports accepted never exceed the caps: at most
\* RATE_LIMIT_MAX_ERRORS of one client in one 60-second bucket and at most
\* RATE_LIMIT_MAX_ERRORS_GLOBAL of all clients in one global window; a
\* report is either accepted or answered 429, and the one answered 429
\* schedules neither the persist task nor the forwarding task.
C24_CapsHold ==
    /\ \A e \in accepted_reports.in_bucket : e.value <= RATE_LIMIT_MAX_ERRORS
    /\ \A e \in accepted_reports.in_window : e.value <= RATE_LIMIT_MAX_ERRORS_GLOBAL
    /\ LogAnswered =>
          /\ response.status \in {200, 429}
          /\ response.status = 429 => response.tasks = <<>>
          /\ response.status = 200 => response.tasks[1] = "persist_error"

\* a report answered 429 while all clients together are at the global cap
\* and the reporting client is below its own
C24_Witness ==
    /\ LogAnswered
    /\ response.status = 429
    /\ AcceptedInWindow(global_error_count.window_start) = RATE_LIMIT_MAX_ERRORS_GLOBAL
    /\ AcceptedInBucket(response.request.client, now \div RATE_LIMIT_WINDOW)
           < RATE_LIMIT_MAX_ERRORS

\* a report answered 429 while its client is at its own cap
C24_WitnessClient ==
    /\ LogAnswered
    /\ response.status = 429
    /\ AcceptedInBucket(response.request.client, now \div RATE_LIMIT_WINDOW)
           = RATE_LIMIT_MAX_ERRORS

\* a step of log_client_error
LogStep ==
    /\ response = NoResponse
    /\ response'.kind = "http"
    /\ response'.endpoint = "log-client-error"

\* the count the code keeps for the client c in the bucket of the time t
ClientCount(counts, c, t) == DictGet(counts[c], BucketKey(t), 0)

\* C28: whenever at least RATE_LIMIT_WINDOW seconds have passed since the
\* global window started, however many, a report that passes the check of
\* its client starts a new global window at the time of the report, is
\* the first report counted in it, and is accepted: no global lock-out
\* lasts longer than RATE_LIMIT_WINDOW seconds from the start of the window.
C28_FreshWindowAfter60 ==
    [][(/\ LogStep
        /\ now - global_error_count.window_start >= RATE_LIMIT_WINDOW
        /\ AcceptedInBucket(response'.request.client, now \div RATE_LIMIT_WINDOW)
               < RATE_LIMIT_MAX_ERRORS)
       => /\ response'.status = 200
          /\ global_error_count'.window_start = now
          /\ global_error_count'.count = 1]_vars

\* C29: a report answered 429 changes neither the count of its client for
\* the current bucket nor the global count and window; an accepted report
\* adds exactly one to the count of its client for the current bucket and
\* exactly one to the global count (counted from 0 when the report starts
\* a new window); the counts of the other clients stay as they are.
C29_CountersFollowAcceptance ==
    [][LogStep =>
        /\ \A c \in Clients \ {response'.request.client} :
              client_error_counts'[c] = client_error_counts[c]
        /\ response'.status = 429 =>
              /\ ClientCount(client_error_counts', response'.request.client, now)
                     = ClientCount(client_error_counts, response'.request.client, now)
              /\ global_error_count' = global_error_count
        /\ response'.status = 200 =>
              /\ ClientCount(client_error_counts', response'.request.client, now)
                     = ClientCount(client_error_counts, response'.request.client, now) + 1
              /\ global_error_count'.count =
                     (IF global_error_count'.window_start = global_error_count.window_start
                      THEN global_error_count.count ELSE 0) + 1]_vars

\* a report was answered 429 at the global cap while its client had
\* budget left, and the client's count is below its cap
C29_Witness ==
    /\ LogAnswered
    /\ response.status = 429
    /\ global_error_count.count = RATE_LIMIT_MAX_ERRORS_GLOBAL
    /\ ClientCount(client_error_counts, response.request.client, now) \in
           1..(RATE_LIMIT_MAX_ERRORS - 1)

\* a report was answered 429 at the cap of its client while the global
\* count is below the global cap
C29_WitnessClient ==
    /\ LogAnswered
    /\ response.status = 429
    /\ global_error_count.count < RATE_LIMIT_MAX_ERRORS_GLOBAL
    /\ ClientCount(client_error_counts, response.request.client, now)
           = RATE_LIMIT_MAX_ERRORS

====
